---- MODULE Spec2Model ----
(***************************************************************************)
(* vget server: the job queue (internal/server/job.go, not part of the     *)
(* sources at hand and therefore modelled from its specification) and the  *)
(* download engine of internal/server/server.go: downloadWithExtractor,    *)
(* downloadVideoWithAudio, downloadFile, and the HTTP handlers that drive  *)
(* the queue; the HLS downloader (internal/core/downloader, modelled from  *)
(* its specification); the HTTP front of server.go: the JWT middleware,    *)
(* the configuration handlers and the file download.                       *)
(***************************************************************************)
EXTENDS Integers, Sequences, FiniteSets, TLC

\* ------------------------------------------------------------------ bounds
\* number of jobs clients submit in one run
MaxJobs == 3
\* size of the worker pool (NewServer's maxConcurrent)
MaxConcurrent == 2
\* largest response body, in bytes
MaxBody == 2
\* capacity of the read buffer of downloadFile (32*1024 in the code), in bytes
BufSize == 2
\* the clock stops at this hour
MaxTime == 2
\* images of an ImageMedia descriptor
MaxImages == 2
\* formats of a VideoMedia descriptor
MaxFormats == 3
\* the retention window of the background sweep, in hours
RetentionHours == 1

\* ------------------------------------------------------------- job status
JobStatusQueued == "queued"
JobStatusDownloading == "downloading"
JobStatusCompleted == "completed"
JobStatusFailed == "failed"
JobStatusCancelled == "cancelled"

TerminalStatus == {JobStatusCompleted, JobStatusFailed, JobStatusCancelled}
ActiveStatus == {JobStatusQueued, JobStatusDownloading}

\* ------------------------------------------------------------------ errors
\* An error value: cause is what errors.Is finds at the bottom of the chain
\* (context.Canceled or anything else), text the outermost message.
Nil == [cause |-> "nil", text |-> "nil"]
Canceled == [cause |-> "canceled", text |-> "context canceled"]
Err(text) == [cause |-> "other", text |-> text]
\* fmt.Errorf(text + ": %v", err): the chain is cut
WrapV(text, err) == [cause |-> "other", text |-> text]

\* fmt.Errorf(text + ": %w", err)
Wrap(text, err) == [cause |-> err.cause, text |-> text]

\* --------------------------------------------------------------- progress
\* A percentage is kept as the exact fraction num/den, den > 0.
Pct(downloaded, total) == [num |-> 100 * downloaded, den |-> total]
PctZero == [num |-> 0, den |-> 1]
PctLE(a, b) == a.num * b.den <= b.num * a.den

Min(a, b) == IF a <= b THEN a ELSE b

\* ----------------------------------------------------------------- strings
\* A string is the sequence of its characters.
\* unicode.ToLower on the letters that occur in upper case
Lower(c) ==
  CASE c = "M" -> "m" [] c = "P" -> "p" [] c = "U" -> "u"
    [] c = "T" -> "t" [] c = "S" -> "s" [] OTHER -> c

\* strings.ToLower
ToLower(s) == [i \in DOMAIN s |-> Lower(s[i])]

\* strings.HasPrefix, strings.HasSuffix, strings.Contains
HasPrefix(s, prefix) ==
  Len(prefix) <= Len(s) /\ SubSeq(s, 1, Len(prefix)) = prefix
HasSuffix(s, suffix) ==
  Len(suffix) <= Len(s)
  /\ SubSeq(s, Len(s) - Len(suffix) + 1, Len(s)) = suffix
Contains(s, substr) ==
  \E i \in 0..(Len(s) - Len(substr)) :
    SubSeq(s, i + 1, i + Len(substr)) = substr

\* strings.TrimSuffix
TrimSuffix(s, suffix) ==
  IF HasSuffix(s, suffix) THEN SubSeq(s, 1, Len(s) - Len(suffix)) ELSE s

\* filepath.Ext: from the last dot of the last element of the path on, ""
\* when that element has no dot
RECURSIVE LastDot(_, _)
LastDot(s, i) ==
  IF i = 0 THEN 0
  ELSE IF s[i] = "/" THEN 0
  ELSE IF s[i] = "." THEN i
  ELSE LastDot(s, i - 1)

FilepathExt(path) ==
  LET dot == LastDot(path, Len(path))
  IN IF dot = 0 THEN <<>> ELSE SubSeq(path, dot, Len(path))

\* filepath.Join(dir, name) for a clean dir and a name without separators
Join(dir, name) == dir \o <<"/">> \o name

\* fmt.Sprintf("%s.%s", name, ext)
WithExt(name, ext) == name \o <<".">> \o ext

\* fmt.Sprintf("%d", i) for one digit
Itoa(i) == <<"0", "1", "2", "3", "4", "5", "6", "7", "8", "9">>[i + 1]

\* fmt.Sprintf("%s_%d.%s", name, i, ext)
WithIndexExt(name, i, ext) == name \o <<"_", Itoa(i), ".">> \o ext

\* strings.Join(filenames, ", ")
RECURSIVE JoinComma(_)
JoinComma(filenames) ==
  IF Len(filenames) = 0 THEN <<>>
  ELSE IF Len(filenames) = 1 THEN filenames[1]
  ELSE filenames[1] \o <<",", " ">> \o JoinComma(Tail(filenames))

\* extractor.SanitizeFilename: the path-unsafe characters are taken out
Unsafe == {"/", ":"}
KeepsSafe(c) == c \notin Unsafe
SanitizeFilename(name) == SelectSeq(name, KeepsSafe)

VARIABLES
  limits,   \* the scenario: size of the pool, number of submissions
  jobs,     \* JobQueue.jobs: id -> Job
  queue,    \* JobQueue.queue: the pending backlog, a sequence of job ids
  nextID,   \* the next job id AddJob hands out
  now,      \* the clock, in hours
  worker,   \* per worker: position in processJob / downloadWithExtractor
  stream,   \* per worker and stream: position and locals of downloadFile
  acc,      \* per worker: the shared counters of downloadVideoWithAudio
  http,     \* the DELETE request being handled and its response
  outputDir, \* Server.outputDir
  disk,     \* the paths of the files on disk
  observed, \* per job id ever created: the Status values it has taken
  invoked,  \* per job id ever created: calls of the download function
  apiKey,   \* Server.apiKey
  cfg,      \* Server.cfg
  configFile, \* the configuration config.Save has written
  jqOutputDir, \* JobQueue.outputDir
  hls       \* the HLS downloader: manifest, segments in flight, output file

config == <<cfg, configFile, jqOutputDir>>

vars == <<limits, jobs, queue, nextID, now, worker, stream, acc, http,
          outputDir, disk, observed, invoked, apiKey, config, hls>>

Workers == 1..limits.maxConcurrent
Streams == {"video", "audio"}

\* ------------------------------------------------------- media descriptors
\* container extensions and the manifest suffix
Mp4 == <<"m", "p", "4">>
Webm == <<"w", "e", "b", "m">>
M3u8 == <<"m", "3", "u", "8">>
Ts == <<"t", "s">>
M4a == <<"m", "4", "a">>
Opus == <<"o", "p", "u", "s">>
Mp3 == <<"m", "p", "3">>
Jpg == <<"j", "p", "g">>
DotM3u8 == <<".">> \o M3u8
DotM3u8Query == DotM3u8 \o <<"?">>

\* extractor.VideoFormat: URL, AudioURL ("" when the format is muxed),
\* Bitrate, Ext
Fmt(url, audio, bitrate, ext) ==
  [URL |-> url, AudioURL |-> audio, Bitrate |-> bitrate, Ext |-> ext]

\* extractor.VideoMedia, extractor.AudioMedia, extractor.ImageMedia and
\* extractor.Image
Video(title, id, formats) ==
  [type |-> "video", Title |-> title, ID |-> id, Formats |-> formats]
Audio(title, id, url, ext) ==
  [type |-> "audio", Title |-> title, ID |-> id, URL |-> url, Ext |-> ext]
Images(title, id, images) ==
  [type |-> "image", Title |-> title, ID |-> id, Images |-> images]
Img(url, ext) == [URL |-> url, Ext |-> ext]
NoMedia == [type |-> "none"]

\* titles, stable IDs and URLs
TitleT == <<"t">>
MediaID == <<"i", "d">>
UrlV == WithExt(<<"v">>, Mp4)
UrlW == WithExt(<<"w">>, Mp4)
UrlA == WithExt(<<"a">>, M4a)
UrlS == WithExt(<<"s">>, Mp3)
UrlI == WithExt(<<"i">>, Jpg)

\* the URL clients submit and the output directories they configure
UrlJob == <<"u">>
DirD == <<"/", "d">>
DirE == <<"/", "e">>

\* what Extract may answer for a URL
Medias ==
  { Video(TitleT, MediaID, <<Fmt(UrlV, <<>>, 500, Mp4)>>),
    Video(TitleT, MediaID, <<Fmt(UrlV, <<>>, 500, Mp4),
                             Fmt(UrlW, UrlA, 300, Mp4)>>),
    Video(TitleT, MediaID, <<>>),
    Audio(TitleT, MediaID, UrlS, Mp3) }
  \cup { Images(TitleT, MediaID, [i \in 1..n |-> Img(UrlI, Jpg)]) :
         n \in 0..MaxImages }

\* selectBestFormat: the index of the chosen format, 0 for an empty list.
\* First loop: the first format of highest bitrate among those with AudioURL.
RECURSIVE BestWithAudio(_, _, _)
BestWithAudio(formats, i, best) ==
  IF i > Len(formats) THEN best
  ELSE IF formats[i].AudioURL /= <<>>
          /\ (best = 0 \/ formats[i].Bitrate > formats[best].Bitrate)
       THEN BestWithAudio(formats, i + 1, i)
       ELSE BestWithAudio(formats, i + 1, best)

\* Second loop: the first format of highest bitrate.
RECURSIVE BestOverall(_, _, _)
BestOverall(formats, i, best) ==
  IF i > Len(formats) THEN best
  ELSE IF formats[i].Bitrate > formats[best].Bitrate
       THEN BestOverall(formats, i + 1, i)
       ELSE BestOverall(formats, i + 1, best)

\* a choice by bitrate alone
selectBestFormatAnyAudio(formats) ==
  IF Len(formats) = 0 THEN 0 ELSE BestOverall(formats, 1, 1)

selectBestFormat(formats) ==
  IF Len(formats) = 0 THEN 0
  ELSE LET bestWithAudio == BestWithAudio(formats, 1, 0)
       IN IF bestWithAudio /= 0 THEN bestWithAudio
          ELSE BestOverall(formats, 1, 1)

\* ------------------------------------------------------------ initial state
\* a worker outside processJob; in it, url and filename are the arguments of
\* the download function, media, format, outputPath and filenames its
\* locals, remux what became of the merge ("none": not reached)
IdleWorker == [pc |-> "idle", job |-> 0, url |-> <<>>, filename |-> <<>>,
               media |-> NoMedia, format |-> 0, outputPath |-> <<>>,
               filenames |-> <<>>, kind |-> "none", images |-> 0,
               img |-> 0, remux |-> "none", ret |-> Nil]
\* downloadFile not running; in it, filepath is its destination, status the
\* StatusCode of the response (0: none yet) and late counts the reads made
\* with the context done
IdleStream == [pc |-> "off", filepath |-> <<>>, status |-> 0, total |-> 0,
               downloaded |-> 0, err |-> Nil, readErr |-> "nil",
               snap |-> <<0, 0>>, late |-> 0]
ZeroAcc == [videoDownloaded |-> 0, videoTotal |-> 0,
            audioDownloaded |-> 0, audioTotal |-> 0]
NoRequest == [pc |-> "none", id |-> 0, cancelled |-> FALSE,
              removed |-> FALSE, code |-> 0, cleared |-> 0]

\* no API key
NoKey == <<>>

\* config.LoadOrDefault() at NewServer: the configuration the server was
\* started with
LoadOrDefault(l, key) ==
  [OutputDir |-> DirD, Language |-> <<"z", "h">>,
   MaxConcurrent |-> l.maxConcurrent, APIKey |-> key]

\* the HLS downloader before a download: no manifest, nothing fetched
IdleHLS == [pc |-> "idle", sizes |-> <<>>, key |-> 0, segment |-> <<>>,
            buffer |-> <<>>, arrived |-> <<>>, out |-> <<>>, writes |-> <<>>,
            err |-> Nil]

\* what NewServer sets beside the queue
InitServer(l, key) ==
  /\ apiKey = key
  /\ cfg = LoadOrDefault(l, key)
  /\ configFile = LoadOrDefault(l, key)
  /\ jqOutputDir = DirD
  /\ hls = IdleHLS

InitWith(l) ==
  /\ limits = l
  /\ jobs = <<>>
  /\ queue = <<>>
  /\ nextID = 1
  /\ now = 0
  /\ worker = [w \in 1..l.maxConcurrent |-> IdleWorker]
  /\ stream = [w \in 1..l.maxConcurrent |-> [s \in Streams |-> IdleStream]]
  /\ acc = [w \in 1..l.maxConcurrent |-> ZeroAcc]
  /\ http = NoRequest
  /\ outputDir = DirD
  /\ disk = {}
  /\ observed = <<>>
  /\ invoked = <<>>
  /\ InitServer(l, NoKey)

\* NewServer(port, outputDir, apiKey, maxConcurrent) followed by Start
Init ==
  InitWith([maxConcurrent |-> MaxConcurrent, maxJobs |-> MaxJobs])

\* the same server with a pool of one worker, serving a single submission
Init1 ==
  InitWith([maxConcurrent |-> 1, maxJobs |-> 1])

\* ------------------------------------------------------ job queue (job.go)
NewJob(url, filename) ==
  [URL |-> url, Filename |-> filename, Status |-> JobStatusQueued,
   Progress |-> PctZero, Downloaded |-> 0, Total |-> 0, Error |-> Nil,
   CompletedAt |-> 0, ctxDone |-> FALSE]

\* jq.updateJobStatus(id, status, err): CompletedAt is stamped on a terminal
\* status
updateJobStatus(js, id, status, err) ==
  IF id \in DOMAIN js
  THEN [js EXCEPT ![id].Status = status, ![id].Error = err,
                  ![id].CompletedAt =
                     IF status \in TerminalStatus THEN now ELSE @]
  ELSE js

\* jq.updateJobProgress(id, downloaded, total): the percentage is computed
\* only from a positive total
updateJobProgress(js, id, downloaded, total) ==
  IF id \in DOMAIN js
  THEN [js EXCEPT ![id].Downloaded = downloaded, ![id].Total = total,
                  ![id].Progress =
                     IF total > 0 THEN Pct(downloaded, total) ELSE @]
  ELSE js

\* CancelJob marking a Downloading job Cancelled itself
CancelJobEager(js, id) ==
  IF id \in DOMAIN js /\ js[id].Status \in ActiveStatus
  THEN <<TRUE, [updateJobStatus(js, id, JobStatusCancelled, Nil)
                  EXCEPT ![id].ctxDone = TRUE]>>
  ELSE <<FALSE, js>>

\* jq.CancelJob(id): <<result, jobs afterwards>>
CancelJob(js, id) ==
  IF id \notin DOMAIN js THEN <<FALSE, js>>
  ELSE IF js[id].Status = JobStatusQueued
       THEN <<TRUE, [updateJobStatus(js, id, JobStatusCancelled, Nil)
                       EXCEPT ![id].ctxDone = TRUE]>>
  ELSE IF js[id].Status = JobStatusDownloading
       THEN <<TRUE, [js EXCEPT ![id].ctxDone = TRUE]>>
  ELSE <<FALSE, js>>

\* a function without the keys in gone
Without(js, gone) == [k \in DOMAIN js \ gone |-> js[k]]

\* RemoveJob without the look at the Status
RemoveJobAny(js, id) ==
  IF id \in DOMAIN js THEN <<TRUE, Without(js, {id})>> ELSE <<FALSE, js>>

\* jq.RemoveJob(id): <<result, jobs afterwards>>
RemoveJob(js, id) ==
  IF id \in DOMAIN js /\ js[id].Status \in TerminalStatus
  THEN <<TRUE, Without(js, {id})>>
  ELSE <<FALSE, js>>

\* one pass of the retention sweep at hour t
Expired(js, t) ==
  {id \in DOMAIN js : /\ js[id].Status \in TerminalStatus
                      /\ t - js[id].CompletedAt > RetentionHours}

\* ClearHistory sparing what the sweep would spare
ClearHistoryOld(js) ==
  <<Cardinality(Expired(js, now)), Without(js, Expired(js, now))>>

\* jq.ClearHistory(): <<count, jobs afterwards>>
ClearHistory(js) ==
  LET gone == {id \in DOMAIN js : js[id].Status \in TerminalStatus}
  IN <<Cardinality(gone), Without(js, gone)>>

\* the Status history of the jobs, extended by what changed from js to js2
Observe(obs, js, js2) ==
  [id \in DOMAIN obs |->
     IF id \in DOMAIN js /\ id \in DOMAIN js2
        /\ js2[id].Status /= js[id].Status
     THEN Append(obs[id], js2[id].Status)
     ELSE obs[id]]

\* a worker that runs whatever it takes from the backlog
processJobStartNoCheck(js, id) ==
  IF id \in DOMAIN js
  THEN <<TRUE, updateJobStatus(js, id, JobStatusDownloading, Nil)>>
  ELSE <<FALSE, js>>

\* the head of the backlog as a worker meets it: a job that is no longer
\* Queued (cancelled meanwhile, possibly removed) is skipped, any other is
\* marked Downloading. <<run, jobs afterwards>>
processJobStart(js, id) ==
  IF id \in DOMAIN js /\ js[id].Status = JobStatusQueued
  THEN <<TRUE, updateJobStatus(js, id, JobStatusDownloading, Nil)>>
  ELSE <<FALSE, js>>

\* the Status a job ends in when the download function returned err
Outcome(err) ==
  IF err = Nil THEN JobStatusCompleted
  ELSE IF err.cause = "canceled" THEN JobStatusCancelled
  ELSE JobStatusFailed

\* jq.AddJob(url, filename), as called by handleDownload
AddJob(url, filename) ==
  /\ nextID <= limits.maxJobs
  /\ jobs' = [id \in DOMAIN jobs \cup {nextID} |->
                IF id = nextID THEN NewJob(url, filename) ELSE jobs[id]]
  /\ queue' = Append(queue, nextID)
  /\ observed' = [id \in DOMAIN observed \cup {nextID} |->
                    IF id = nextID THEN <<JobStatusQueued>> ELSE observed[id]]
  /\ invoked' = [id \in DOMAIN invoked \cup {nextID} |->
                   IF id = nextID THEN 0 ELSE invoked[id]]
  /\ nextID' = nextID + 1
  /\ UNCHANGED <<apiKey, config, hls, limits, outputDir, disk, now, worker,
                 stream, acc, http>>

\* a worker that starts the next job before the one it runs has returned
workerTakeAny(w) ==
  /\ queue /= <<>>
  /\ LET id == Head(queue)
         r == processJobStart(jobs, id)
     IN /\ queue' = Tail(queue)
        /\ jobs' = r[2]
        /\ observed' = Observe(observed, jobs, r[2])
        /\ IF r[1]
           THEN /\ worker' = [worker EXCEPT ![w] =
                                [IdleWorker EXCEPT
                                   !.pc = "extract", !.job = id,
                                   !.url = jobs[id].URL,
                                   !.filename = jobs[id].Filename]]
                /\ invoked' = [invoked EXCEPT ![id] = @ + 1]
           ELSE UNCHANGED <<worker, invoked>>
  /\ UNCHANGED <<apiKey, config, hls, limits, outputDir, disk, nextID, now,
                 stream, acc, http>>

\* a worker that reads the head of the backlog without taking it off
workerTakeKeep(w) ==
  /\ worker[w].pc = "idle"
  /\ queue /= <<>>
  /\ LET id == Head(queue)
         r == processJobStart(jobs, id)
     IN /\ r[1]
        /\ jobs' = r[2]
        /\ observed' = Observe(observed, jobs, r[2])
        /\ worker' = [worker EXCEPT ![w] =
                        [IdleWorker EXCEPT
                           !.pc = "extract", !.job = id,
                           !.url = jobs[id].URL,
                           !.filename = jobs[id].Filename]]
        /\ invoked' = [invoked EXCEPT ![id] = @ + 1]
  /\ UNCHANGED <<apiKey, config, hls, limits, outputDir, disk, queue, nextID,
                 now, stream, acc, http>>

\* jq.worker: take the next job from the backlog; processJob up to the call
\* of the download function
workerTake(w) ==
  /\ worker[w].pc = "idle"
  /\ queue /= <<>>
  /\ LET id == Head(queue)
         r == processJobStart(jobs, id)
     IN /\ queue' = Tail(queue)
        /\ jobs' = r[2]
        /\ observed' = Observe(observed, jobs, r[2])
        /\ IF r[1]
           THEN /\ worker' = [worker EXCEPT ![w] =
                                [IdleWorker EXCEPT
                                   !.pc = "extract", !.job = id,
                                   !.url = jobs[id].URL,
                                   !.filename = jobs[id].Filename]]
                /\ invoked' = [invoked EXCEPT ![id] = @ + 1]
           ELSE UNCHANGED <<worker, invoked>>
  /\ UNCHANGED <<apiKey, config, hls, limits, outputDir, disk, nextID, now,
                 stream, acc, http>>

\* processJob putting a failed job back into the backlog
processJobFinishRetry(w) ==
  /\ worker[w].pc = "ret"
  /\ LET id == worker[w].job
         failed == Outcome(worker[w].ret) = JobStatusFailed
     IN /\ jobs' = updateJobStatus(jobs, id,
                      IF failed THEN JobStatusQueued
                      ELSE Outcome(worker[w].ret), worker[w].ret)
        /\ queue' = IF failed THEN Append(queue, id) ELSE queue
  /\ observed' = Observe(observed, jobs, jobs')
  /\ worker' = [worker EXCEPT ![w] = IdleWorker]
  /\ UNCHANGED <<apiKey, config, hls, limits, outputDir, disk, nextID, now,
                 stream, acc, http, invoked>>

\* processJob after the download function returned
processJobFinish(w) ==
  /\ worker[w].pc = "ret"
  /\ jobs' = updateJobStatus(jobs, worker[w].job, Outcome(worker[w].ret),
                             worker[w].ret)
  /\ observed' = Observe(observed, jobs, jobs')
  /\ worker' = [worker EXCEPT ![w] = IdleWorker]
  /\ UNCHANGED <<apiKey, config, hls, limits, outputDir, disk, queue, nextID,
                 now, stream, acc, http, invoked>>

\* cleanupLoop: one pass of the retention sweep
cleanupOldJobs ==
  /\ Expired(jobs, now) /= {}
  /\ jobs' = Without(jobs, Expired(jobs, now))
  /\ UNCHANGED <<apiKey, config, hls, limits, outputDir, disk, queue, nextID,
                 now, worker, stream, acc, http, observed, invoked>>

\* an hour passes
Tick ==
  /\ now < MaxTime
  /\ now' = now + 1
  /\ UNCHANGED <<apiKey, config, hls, limits, outputDir, disk, jobs, queue,
                 nextID, worker, stream, acc, http, observed, invoked>>

\* ------------------------------------------------- HTTP handlers (server.go)
\* a handler that goes on to RemoveJob after a successful CancelJob
handleDeleteJobCancelOn(id) ==
  /\ http.pc = "none"
  /\ LET r == CancelJob(jobs, id)
     IN /\ jobs' = r[2]
        /\ observed' = Observe(observed, jobs, r[2])
        /\ http' = [NoRequest EXCEPT !.pc = "remove", !.id = id,
                                     !.cancelled = r[1]]
  /\ UNCHANGED <<apiKey, config, hls, limits, outputDir, disk, queue, nextID,
                 now, worker, stream, acc, invoked>>

\* handleDeleteJob, first branch: s.jobQueue.CancelJob(id)
handleDeleteJobCancel(id) ==
  /\ http.pc = "none"
  /\ LET r == CancelJob(jobs, id)
     IN /\ jobs' = r[2]
        /\ observed' = Observe(observed, jobs, r[2])
        /\ http' = IF r[1]
                   THEN [NoRequest EXCEPT !.pc = "done", !.id = id,
                                          !.cancelled = TRUE, !.code = 200]
                   ELSE [NoRequest EXCEPT !.pc = "remove", !.id = id]
  /\ UNCHANGED <<apiKey, config, hls, limits, outputDir, disk, queue, nextID,
                 now, worker, stream, acc, invoked>>

\* handleDeleteJob, second and third branch: s.jobQueue.RemoveJob(id)
handleDeleteJobRemove ==
  /\ http.pc = "remove"
  /\ LET r == RemoveJob(jobs, http.id)
     IN /\ jobs' = r[2]
        /\ http' = IF r[1]
                   THEN [http EXCEPT !.pc = "done", !.removed = TRUE,
                                     !.code = 200]
                   ELSE [http EXCEPT !.pc = "done", !.code = 404]
  /\ UNCHANGED <<apiKey, config, hls, limits, outputDir, disk, queue, nextID,
                 now, worker, stream, acc, observed, invoked>>

\* handleClearJobs
handleClearJobs ==
  /\ http.pc = "none"
  /\ LET r == ClearHistory(jobs)
     IN /\ jobs' = r[2]
        /\ http' = [NoRequest EXCEPT !.pc = "cleared", !.code = 200,
                                     !.cleared = r[1]]
  /\ UNCHANGED <<apiKey, config, hls, limits, outputDir, disk, queue, nextID,
                 now, worker, stream, acc, observed, invoked>>

\* the response has been written, the connection serves the next request
Respond ==
  /\ http.pc \in {"done", "cleared"}
  /\ http' = NoRequest
  /\ UNCHANGED <<apiKey, config, hls, limits, outputDir, disk, jobs, queue,
                 nextID, now, worker, stream, acc, observed, invoked>>

\* ------------------------------------------- download engine (server.go)
ctxDone(w) == jobs[worker[w].job].ctxDone

StartStream == [IdleStream EXCEPT !.pc = "request"]

\* s.updateJobFilename(url, filename): the first job of the listing (jobs in
\* creation order) whose URL is url gets the Filename
updateJobFilename(js, url, filename) ==
  LET same == {id \in DOMAIN js : js[id].URL = url}
  IN IF same = {} THEN js
     ELSE LET first == CHOOSE id \in same : \A other \in same : id <= other
          IN [js EXCEPT ![first].Filename = filename]

\* the extension as the format declares it
VideoExtDeclared(format) == format.Ext

\* the extension of the output of a Video format
VideoExt(format) == IF format.Ext = M3u8 THEN Ts ELSE format.Ext

\* the name of the output of a Video or Audio descriptor: the requested
\* filename, sanitized and given the extension when it does not end in it,
\* else the sanitized title, else the ID
OutputName(filename, title, id, ext) ==
  IF filename /= <<>>
  THEN LET sanitized == SanitizeFilename(filename)
       IN IF ~HasSuffix(ToLower(sanitized), <<".">> \o ext)
          THEN WithExt(sanitized, ext)
          ELSE sanitized
  ELSE LET t == SanitizeFilename(title)
       IN IF t /= <<>> THEN WithExt(t, ext) ELSE WithExt(id, ext)

\* the name of image i of an Image descriptor
ImageName(m, i) ==
  LET title == SanitizeFilename(m.Title)
      name == IF title /= <<>> THEN title ELSE m.ID
  IN IF Len(m.Images) = 1
     THEN WithExt(name, m.Images[i].Ext)
     ELSE WithIndexExt(name, i, m.Images[i].Ext)

\* a test on the end of the URL alone
IsHLSSuffix(downloadURL) == HasSuffix(ToLower(downloadURL), DotM3u8)

\* the test for an HLS stream on the download URL
IsHLS(downloadURL) ==
  \/ HasSuffix(ToLower(downloadURL), DotM3u8)
  \/ Contains(ToLower(downloadURL), DotM3u8Query)

\* downloadVideoWithAudio: the file of the audio stream
AudioFile(format, outputPath) ==
  LET audioExt == IF format.Ext = Webm THEN Opus ELSE M4a
      baseName == TrimSuffix(outputPath, FilepathExt(outputPath))
  IN WithExt(baseName, audioExt)

\* the strategy after the switch: the HLS downloader or downloadFile
Dispatch(downloadURL) == IF IsHLS(downloadURL) THEN "hls" ELSE "plain"

\* downloadWithExtractor up to the first fetch: Extract, the switch on the
\* media type, selectBestFormat, the output path and the choice of the
\* strategy
Extract(w, m) ==
  /\ worker[w].pc = "extract"
  /\ LET me == worker[w]
         fail(err) == [me EXCEPT !.pc = "ret", !.media = m, !.ret = err]
     IN IF m.type = "error"
        THEN /\ worker' = [worker EXCEPT ![w] =
                  [me EXCEPT !.pc = "ret",
                     !.ret = Wrap("extraction failed", Err("extract"))]]
             /\ UNCHANGED <<jobs, stream, acc>>
        ELSE IF m.type = "video" /\ Len(m.Formats) = 0
        THEN /\ worker' = [worker EXCEPT ![w] =
                             fail(Err("no video formats available"))]
             /\ UNCHANGED <<jobs, stream, acc>>
        ELSE IF m.type = "video"
        THEN LET i == selectBestFormat(m.Formats)
                 format == m.Formats[i]
                 outputPath ==
                   Join(outputDir, OutputName(me.filename, m.Title, m.ID,
                                              VideoExt(format)))
                 kind == IF format.AudioURL /= <<>> THEN "dual"
                         ELSE Dispatch(format.URL)
             IN /\ worker' = [worker EXCEPT ![w] =
                     [me EXCEPT !.pc = "run", !.media = m, !.format = i,
                                !.outputPath = outputPath, !.kind = kind]]
                /\ jobs' = updateJobFilename(jobs, me.url, outputPath)
                /\ stream' = [stream EXCEPT ![w] =
                     IF kind = "dual"
                     THEN [s \in Streams |->
                             [StartStream EXCEPT !.filepath =
                                IF s = "video" THEN outputPath
                                ELSE AudioFile(format, outputPath)]]
                     ELSE IF kind = "plain"
                     THEN [@ EXCEPT !["video"] =
                             [StartStream EXCEPT !.filepath = outputPath]]
                     ELSE @]
                /\ acc' = [acc EXCEPT ![w] = ZeroAcc]
        ELSE IF m.type = "audio"
        THEN LET outputPath ==
                   Join(outputDir, OutputName(me.filename, m.Title, m.ID,
                                              m.Ext))
                 kind == Dispatch(m.URL)
             IN /\ worker' = [worker EXCEPT ![w] =
                     [me EXCEPT !.pc = "run", !.media = m,
                                !.outputPath = outputPath, !.kind = kind]]
                /\ jobs' = updateJobFilename(jobs, me.url, outputPath)
                /\ stream' = [stream EXCEPT ![w] =
                     IF kind = "plain"
                     THEN [@ EXCEPT !["video"] =
                             [StartStream EXCEPT !.filepath = outputPath]]
                     ELSE @]
                /\ UNCHANGED acc
        ELSE IF Len(m.Images) = 0
        THEN /\ worker' = [worker EXCEPT ![w] =
                             fail(Err("no images available"))]
             /\ UNCHANGED <<jobs, stream, acc>>
        ELSE LET imgPath == Join(outputDir, ImageName(m, 1))
             IN /\ worker' = [worker EXCEPT ![w] =
                     [me EXCEPT !.pc = "run", !.media = m, !.kind = "image",
                                !.images = Len(m.Images), !.img = 1,
                                !.filenames = <<imgPath>>]]
                /\ stream' = [stream EXCEPT ![w]["video"] =
                                [StartStream EXCEPT !.filepath = imgPath]]
                /\ UNCHANGED <<jobs, acc>>
  /\ UNCHANGED <<apiKey, config, hls, limits, outputDir, disk, queue, nextID,
                 now, http, observed, invoked>>

\* the error downloadFile returns when it finds the context done before a read
ctxErr == Canceled

\* http.StatusOK, and the status codes servers answer with
StatusOK == 200
StatusCodes == {200, 204, 404}

\* fmt.Errorf("download failed with status %d", resp.StatusCode)
StatusError(code) ==
  Err(CASE code = 204 -> "download failed with status 204"
        [] code = 404 -> "download failed with status 404"
        [] OTHER -> "download failed with status")

\* downloadFile from client.Do to os.Create: what the request can come to.
\* A transport error carries context.Canceled when the context is done.
RequestOutcomes(done) ==
  { [err |-> Wrap("download request failed", Err("transport")), total |-> 0,
     status |-> 0] }
  \cup (IF done
        THEN {[err |-> Wrap("download request failed", Canceled),
               total |-> 0, status |-> 0]}
        ELSE {})
  \cup { [err |-> StatusError(code), total |-> 0, status |-> code] :
           code \in {c \in StatusCodes : c /= StatusOK} }
  \cup { [err |-> Wrap("failed to create output file", Err("create")),
          total |-> 0, status |-> StatusOK] }
  \cup { [err |-> Nil, total |-> t, status |-> StatusOK] : t \in -1..MaxBody }

\* os.Create(filepath): the file exists from then on
Create(files, filepath) == files \cup {filepath}

downloadFileRequest(w, s, o) ==
  /\ worker[w].pc = "run"
  /\ stream[w][s].pc = "request"
  /\ o \in RequestOutcomes(ctxDone(w))
  /\ stream' = [stream EXCEPT ![w][s] =
                  IF o.err = Nil
                  THEN [@ EXCEPT !.pc = "check", !.total = o.total,
                                 !.status = o.status]
                  ELSE [@ EXCEPT !.pc = "done", !.err = o.err,
                                 !.status = o.status]]
  /\ disk' = IF o.err = Nil THEN Create(disk, stream[w][s].filepath)
             ELSE disk
  /\ UNCHANGED <<apiKey, config, hls, limits, outputDir, jobs, queue, nextID,
                 now, worker, acc, http, observed, invoked>>

\* a read loop that does not look at the context
downloadFileCheckBlind(w, s) ==
  /\ worker[w].pc = "run"
  /\ stream[w][s].pc = "check"
  /\ stream' = [stream EXCEPT ![w][s].pc = "read"]
  /\ UNCHANGED <<apiKey, config, hls, limits, outputDir, disk, jobs, queue,
                 nextID, now, worker, acc, http, observed, invoked>>

\* the select on ctx.Done() at the head of the read loop
downloadFileCheck(w, s) ==
  /\ worker[w].pc = "run"
  /\ stream[w][s].pc = "check"
  /\ stream' = [stream EXCEPT ![w][s] =
                  IF ctxDone(w)
                  THEN [@ EXCEPT !.pc = "done", !.err = ctxErr]
                  ELSE [@ EXCEPT !.pc = "read"]]
  /\ UNCHANGED <<apiKey, config, hls, limits, outputDir, disk, jobs, queue,
                 nextID, now, worker, acc, http, observed, invoked>>

\* resp.Body.Read: <<n, readErr>> with readErr one of "nil", "eof", "err" and,
\* once the context is done, "canceled". A body of known length ends at that
\* length, one of unknown length anywhere up to MaxBody.
ReadOutcomes(st, done) ==
  LET limit == IF st.total >= 0 THEN st.total ELSE MaxBody
      left == limit - st.downloaded
      ends == {n \in 0..Min(BufSize, left) :
                 st.total < 0 \/ st.downloaded + n = st.total}
  IN { <<n, "nil">> : n \in 1..Min(BufSize, left) }
     \cup { <<n, "eof">> : n \in ends }
     \cup { <<0, "err">> }
     \cup (IF done THEN { <<0, "canceled">> } ELSE {})

\* a read loop that goes on after a read error
AfterReadRetry(st, readErr) ==
  IF readErr = "eof" THEN [st EXCEPT !.pc = "done", !.readErr = "nil"]
  ELSE [st EXCEPT !.pc = "check", !.readErr = "nil"]

\* the end of one pass through the read loop, after the progress callback:
\* break on io.EOF, return on any other read error, else loop
AfterRead(st, readErr) ==
  IF readErr = "eof" THEN [st EXCEPT !.pc = "done", !.readErr = "nil"]
  ELSE IF readErr = "err"
  THEN [st EXCEPT !.pc = "done", !.readErr = "nil",
                  !.err = Wrap("download failed", Err("read"))]
  ELSE IF readErr = "canceled"
  THEN [st EXCEPT !.pc = "done", !.readErr = "nil",
                  !.err = Wrap("download failed", Canceled)]
  ELSE [st EXCEPT !.pc = "check", !.readErr = "nil"]

\* the callbacks downloadVideoWithAudio hands to downloadFile: store the
\* stream's counters under mu
StoreCounters(a, s, downloaded, total) ==
  IF s = "video"
  THEN [a EXCEPT !.videoDownloaded = downloaded, !.videoTotal = total]
  ELSE [a EXCEPT !.audioDownloaded = downloaded, !.audioTotal = total]

\* one pass through the read loop of downloadFile: Read, Write, the progress
\* callback (jq.updateJobProgress for a plain download, none for an image,
\* the counters of downloadVideoWithAudio for a stream of a dual download)
downloadFileRead(w, s, o, writeOK) ==
  /\ worker[w].pc = "run"
  /\ stream[w][s].pc = "read"
  /\ o \in ReadOutcomes(stream[w][s], ctxDone(w))
  /\ LET n == o[1]
         read == [stream[w][s] EXCEPT
                    !.late = IF ctxDone(w) THEN @ + 1 ELSE @]
         got == [read EXCEPT !.downloaded = @ + n]
     IN IF n = 0
        THEN /\ writeOK
             /\ stream' = [stream EXCEPT ![w][s] = AfterRead(read, o[2])]
             /\ UNCHANGED <<jobs, acc>>
        ELSE IF ~writeOK
        THEN /\ stream' = [stream EXCEPT ![w][s] =
                             [read EXCEPT !.pc = "done",
                                !.err = Wrap("failed to write file",
                                             Err("write"))]]
             /\ UNCHANGED <<jobs, acc>>
        ELSE IF worker[w].kind = "plain"
        THEN /\ jobs' = updateJobProgress(jobs, worker[w].job,
                                          got.downloaded, got.total)
             /\ stream' = [stream EXCEPT ![w][s] = AfterRead(got, o[2])]
             /\ UNCHANGED acc
        ELSE IF worker[w].kind = "image"
        THEN /\ stream' = [stream EXCEPT ![w][s] = AfterRead(got, o[2])]
             /\ UNCHANGED <<jobs, acc>>
        ELSE /\ acc' = [acc EXCEPT ![w] =
                          StoreCounters(@, s, got.downloaded, got.total)]
             /\ stream' = [stream EXCEPT ![w][s] =
                             [got EXCEPT !.pc = "snap", !.readErr = o[2]]]
             /\ UNCHANGED jobs
  /\ UNCHANGED <<apiKey, config, hls, limits, outputDir, disk, queue, nextID,
                 now, worker, http, observed, invoked>>

\* reportProgress, first half: read the sums under mu
reportProgressSums(a) ==
  <<a.videoDownloaded + a.audioDownloaded, a.videoTotal + a.audioTotal>>

reportProgressLock(w, s) ==
  /\ worker[w].pc = "run"
  /\ stream[w][s].pc = "snap"
  /\ stream' = [stream EXCEPT ![w][s].pc = "report",
                              ![w][s].snap = reportProgressSums(acc[w])]
  /\ UNCHANGED <<apiKey, config, hls, limits, outputDir, disk, jobs, queue,
                 nextID, now, worker, acc, http, observed, invoked>>

\* reportProgress, second half: progressFn(downloaded, total) when total > 0
reportProgressCall(w, s) ==
  /\ worker[w].pc = "run"
  /\ stream[w][s].pc = "report"
  /\ LET st == stream[w][s]
     IN /\ jobs' = IF st.snap[2] > 0
                   THEN updateJobProgress(jobs, worker[w].job,
                                          st.snap[1], st.snap[2])
                   ELSE jobs
        /\ stream' = [stream EXCEPT ![w][s] =
                        AfterRead([st EXCEPT !.snap = <<0, 0>>], st.readErr)]
  /\ UNCHANGED <<apiKey, config, hls, limits, outputDir, disk, queue, nextID,
                 now, worker, acc, http, observed, invoked>>

\* downloadWithExtractor's last line: return downloadFile(...)
plainReturn(w) ==
  /\ worker[w].pc = "run"
  /\ worker[w].kind = "plain"
  /\ stream[w]["video"].pc = "done"
  /\ worker' = [worker EXCEPT ![w].pc = "ret",
                              ![w].ret = stream[w]["video"].err]
  /\ stream' = [stream EXCEPT ![w]["video"] = IdleStream]
  /\ UNCHANGED <<apiKey, config, hls, limits, outputDir, disk, jobs, queue,
                 nextID, now, acc, http, observed, invoked>>

\* a merger that lets the audio stream fail
dualResultVideoOnly(videoErr, audioErr) ==
  IF videoErr /= Nil
  THEN Wrap("failed to download video stream", videoErr)
  ELSE Nil

\* downloadVideoWithAudio after wg.Wait(): the video error first
dualResult(videoErr, audioErr) ==
  IF videoErr /= Nil
  THEN Wrap("failed to download video stream", videoErr)
  ELSE IF audioErr /= Nil
  THEN Wrap("failed to download audio stream", audioErr)
  ELSE Nil

\* downloader.MergeVideoAudioKeepOriginals(videoFile, audioFile): the file
\* it writes beside the two it keeps
MergedFile(videoFile) ==
  LET ext == FilepathExt(videoFile)
  IN TrimSuffix(videoFile, ext) \o <<"_", "m">> \o ext

\* what becomes of the remux tool: downloader.FFmpegAvailable() says no, or
\* the merge succeeds, or it fails
Remuxes == {"unavailable", "ok", "failed"}

\* a merger that returns the error of a failed merge
dualReturnStrict(w, remux) ==
  /\ worker[w].pc = "run"
  /\ worker[w].kind = "dual"
  /\ \A s \in Streams : stream[w][s].pc = "done"
  /\ remux \in Remuxes
  /\ LET err == dualResult(stream[w]["video"].err, stream[w]["audio"].err)
     IN IF err /= Nil
        THEN /\ remux = "unavailable"
             /\ worker' = [worker EXCEPT ![w].pc = "ret", ![w].ret = err]
             /\ UNCHANGED disk
        ELSE /\ worker' = [worker EXCEPT ![w].pc = "ret",
                             ![w].ret = IF remux = "failed"
                                        THEN Err("merge") ELSE Nil,
                             ![w].remux = remux]
             /\ disk' = IF remux = "ok"
                        THEN Create(disk,
                                    MergedFile(stream[w]["video"].filepath))
                        ELSE disk
  /\ stream' = [stream EXCEPT ![w] = [s \in Streams |-> IdleStream]]
  /\ acc' = [acc EXCEPT ![w] = ZeroAcc]
  /\ UNCHANGED <<apiKey, config, hls, limits, outputDir, jobs, queue, nextID,
                 now, http, observed, invoked>>

\* downloadVideoWithAudio after wg.Wait(): the error checks and, when both
\* downloads succeeded, the merge with ffmpeg if it is available; a failed
\* merge is logged
dualReturn(w, remux) ==
  /\ worker[w].pc = "run"
  /\ worker[w].kind = "dual"
  /\ \A s \in Streams : stream[w][s].pc = "done"
  /\ remux \in Remuxes
  /\ LET err == dualResult(stream[w]["video"].err, stream[w]["audio"].err)
     IN IF err /= Nil
        THEN /\ remux = "unavailable"
             /\ worker' = [worker EXCEPT ![w].pc = "ret", ![w].ret = err]
             /\ UNCHANGED disk
        ELSE /\ worker' = [worker EXCEPT ![w].pc = "ret", ![w].ret = Nil,
                                         ![w].remux = remux]
             /\ disk' = IF remux = "ok"
                        THEN Create(disk,
                                    MergedFile(stream[w]["video"].filepath))
                        ELSE disk
  /\ stream' = [stream EXCEPT ![w] = [s \in Streams |-> IdleStream]]
  /\ acc' = [acc EXCEPT ![w] = ZeroAcc]
  /\ UNCHANGED <<apiKey, config, hls, limits, outputDir, jobs, queue, nextID,
                 now, http, observed, invoked>>

\* an image loop that goes on to the next image after a failed one
imageNextOn(w) ==
  /\ worker[w].pc = "run"
  /\ worker[w].kind = "image"
  /\ stream[w]["video"].pc = "done"
  /\ LET me == worker[w]
         imgPath == Join(outputDir, ImageName(me.media, me.img + 1))
     IN IF me.img < Len(me.media.Images)
        THEN /\ worker' = [worker EXCEPT ![w].img = @ + 1,
                             ![w].filenames = Append(@, imgPath)]
             /\ stream' = [stream EXCEPT ![w]["video"] =
                             [StartStream EXCEPT !.filepath = imgPath]]
             /\ UNCHANGED jobs
        ELSE /\ worker' = [worker EXCEPT ![w].pc = "ret", ![w].ret = Nil]
             /\ stream' = [stream EXCEPT ![w]["video"] = IdleStream]
             /\ jobs' = updateJobFilename(jobs, me.url,
                                          JoinComma(me.filenames))
  /\ UNCHANGED <<apiKey, config, hls, limits, outputDir, disk, queue, nextID,
                 now, acc, http, observed, invoked>>

\* the image loop of downloadWithExtractor after downloadFile returned: the
\* error return, the next pass (path of the next image, append, downloadFile)
\* or, after the last image, updateJobFilename with the joined paths
imageNext(w) ==
  /\ worker[w].pc = "run"
  /\ worker[w].kind = "image"
  /\ stream[w]["video"].pc = "done"
  /\ LET me == worker[w]
         err == stream[w]["video"].err
         imgPath == Join(outputDir, ImageName(me.media, me.img + 1))
     IN IF err /= Nil
        THEN /\ worker' = [worker EXCEPT ![w].pc = "ret",
                             ![w].ret = Wrap("failed to download image", err)]
             /\ stream' = [stream EXCEPT ![w]["video"] = IdleStream]
             /\ UNCHANGED jobs
        ELSE IF me.img < Len(me.media.Images)
        THEN /\ worker' = [worker EXCEPT ![w].img = @ + 1,
                             ![w].filenames = Append(@, imgPath)]
             /\ stream' = [stream EXCEPT ![w]["video"] =
                             [StartStream EXCEPT !.filepath = imgPath]]
             /\ UNCHANGED jobs
        ELSE /\ worker' = [worker EXCEPT ![w].pc = "ret", ![w].ret = Nil]
             /\ stream' = [stream EXCEPT ![w]["video"] = IdleStream]
             /\ jobs' = updateJobFilename(jobs, me.url,
                                          JoinComma(me.filenames))
  /\ UNCHANGED <<apiKey, config, hls, limits, outputDir, disk, queue, nextID,
                 now, acc, http, observed, invoked>>

\* ------------------------------------------------ the fetches as one call
\* downloadFile from entry to return: the error it returns, whether it got
\* as far as os.Create, and the arguments of its last progress callback
\* (downloaded 0: no callback was made)
FileOutcomes(done) ==
  { [err |-> StatusError(404), status |-> 404, created |-> FALSE,
     downloaded |-> 0, total |-> 0],
    [err |-> Wrap("download failed", Err("read")), status |-> StatusOK,
     created |-> TRUE, downloaded |-> 0, total |-> MaxBody],
    [err |-> Nil, status |-> StatusOK, created |-> TRUE,
     downloaded |-> MaxBody, total |-> MaxBody] }
  \cup (IF done
        THEN {[err |-> Canceled, status |-> StatusOK, created |-> TRUE,
               downloaded |-> 0, total |-> MaxBody]}
        ELSE {})

downloadFile(w, s, o) ==
  /\ worker[w].pc = "run"
  /\ stream[w][s].pc = "request"
  /\ o \in FileOutcomes(ctxDone(w))
  /\ stream' = [stream EXCEPT ![w][s] =
                  [@ EXCEPT !.pc = "done", !.err = o.err,
                            !.status = o.status,
                            !.downloaded = o.downloaded, !.total = o.total]]
  /\ disk' = IF o.created THEN Create(disk, stream[w][s].filepath) ELSE disk
  /\ IF o.downloaded = 0 \/ worker[w].kind = "image"
     THEN UNCHANGED <<jobs, acc>>
     ELSE IF worker[w].kind = "plain"
     THEN /\ jobs' = updateJobProgress(jobs, worker[w].job, o.downloaded,
                                       o.total)
          /\ UNCHANGED acc
     ELSE LET stored == StoreCounters(acc[w], s, o.downloaded, o.total)
              sums == reportProgressSums(stored)
          IN /\ acc' = [acc EXCEPT ![w] = stored]
             /\ jobs' = IF sums[2] > 0
                        THEN updateJobProgress(jobs, worker[w].job,
                                               sums[1], sums[2])
                        ELSE jobs
  /\ UNCHANGED <<apiKey, config, hls, limits, outputDir, queue, nextID, now,
                 worker, http, observed, invoked>>

\* downloader.DownloadHLSWithProgress from entry to return: its error, or
\* the path it returns, outputPath or, after the optional remux, the path of
\* the converted file
RemuxPath(outputPath) ==
  WithExt(TrimSuffix(outputPath, FilepathExt(outputPath)), Mp4)

HLSOutcomes(outputPath, done) ==
  { [err |-> Err("hls"), finalPath |-> <<>>],
    [err |-> Nil, finalPath |-> outputPath],
    [err |-> Nil, finalPath |-> RemuxPath(outputPath)] }
  \cup (IF done THEN {[err |-> Canceled, finalPath |-> <<>>]} ELSE {})

\* the HLS branch of downloadWithExtractor
DownloadHLSWithProgress(w, o) ==
  /\ worker[w].pc = "run"
  /\ worker[w].kind = "hls"
  /\ o \in HLSOutcomes(worker[w].outputPath, ctxDone(w))
  /\ LET me == worker[w]
     IN IF o.err /= Nil
        THEN /\ worker' = [worker EXCEPT ![w].pc = "ret", ![w].ret = o.err]
             /\ disk' = Create(disk, me.outputPath)
             /\ UNCHANGED jobs
        ELSE /\ worker' = [worker EXCEPT ![w].pc = "ret", ![w].ret = Nil]
             /\ disk' = Create(disk, o.finalPath)
             /\ jobs' = LET reported == updateJobProgress(jobs, me.job,
                                                          MaxBody, MaxBody)
                        IN IF o.finalPath /= me.outputPath
                           THEN updateJobFilename(reported, me.url,
                                                  o.finalPath)
                           ELSE reported
  /\ UNCHANGED <<apiKey, config, hls, limits, outputDir, queue, nextID, now,
                 stream, acc, http, observed, invoked>>

\* ------------------------------------------------------- config handlers
\* fmt.Sscanf(value, "%d", &val): the number the leading digits spell, an
\* error if value does not begin with a digit
Digits == {Itoa(i) : i \in 0..9}

DigitValue(c) == CHOOSE i \in 0..9 : Itoa(i) = c

RECURSIVE LeadingNumber(_, _)
LeadingNumber(value, val) ==
  IF value = <<>> \/ Head(value) \notin Digits THEN val
  ELSE LeadingNumber(Tail(value), 10 * val + DigitValue(Head(value)))

Sscanf(value) ==
  IF value = <<>> \/ Head(value) \notin Digits
  THEN [err |-> Err("sscanf"), val |-> 0]
  ELSE [err |-> Nil, val |-> LeadingNumber(value, 0)]

\* s.setConfigValue(cfg, key, value): the error it returns and cfg afterwards
\* (format, quality and twitter_auth_token are string fields set like
\* language)
setConfigValue(c, key, value) ==
  CASE key = "language" ->
         [err |-> Nil, cfg |-> [c EXCEPT !.Language = value]]
    [] key = "output_dir" ->
         [err |-> Nil, cfg |-> [c EXCEPT !.OutputDir = value]]
    [] key \in {"server.max_concurrent", "server_max_concurrent"} ->
         IF Sscanf(value).err /= Nil
         THEN [err |-> Err("invalid value for max_concurrent"), cfg |-> c]
         ELSE [err |-> Nil,
               cfg |-> [c EXCEPT !.MaxConcurrent = Sscanf(value).val]]
    [] key \in {"server.api_key", "server_api_key"} ->
         [err |-> Nil, cfg |-> [c EXCEPT !.APIKey = value]]
    [] OTHER -> [err |-> Err("unknown config key"), cfg |-> c]

\* the state of the configuration: the server's cached config, the file,
\* the output directory of the server and of the job queue
ConfigState ==
  [cfg |-> cfg, configFile |-> configFile, outputDir |-> outputDir,
   jqOutputDir |-> jqOutputDir]

\* handleSetConfig that makes the directory before it saves
SetConfigMkdirFirst(key, value, saveOK, mkdirOK) ==
  LET set == setConfigValue(configFile, key, value)
      before == ConfigState
  IN IF key = ""
     THEN [code |-> 400, state |-> before]
     ELSE IF set.err /= Nil
     THEN [code |-> 400, state |-> before]
     ELSE IF key = "output_dir" /\ ~mkdirOK
     THEN [code |-> 400, state |-> before]
     ELSE IF ~saveOK
     THEN [code |-> 500, state |-> before]
     ELSE [code |-> 200,
           state |-> IF key = "output_dir"
                     THEN [cfg |-> set.cfg, configFile |-> set.cfg,
                           outputDir |-> value, jqOutputDir |-> value]
                     ELSE [before EXCEPT !.cfg = set.cfg,
                                         !.configFile = set.cfg]]

\* handleSetConfig (POST /api/config) with a key and a value: the status it
\* answers and the configuration it leaves; saveOK: config.Save succeeds,
\* mkdirOK: os.MkdirAll succeeds. config.LoadOrDefault reads the file.
SetConfig(key, value, saveOK, mkdirOK) ==
  LET set == setConfigValue(configFile, key, value)
      before == ConfigState
      saved == [before EXCEPT !.cfg = set.cfg, !.configFile = set.cfg]
  IN IF key = ""
     THEN [code |-> 400, state |-> before]
     ELSE IF set.err /= Nil
     THEN [code |-> 400, state |-> before]
     ELSE IF ~saveOK
     THEN [code |-> 500, state |-> before]
     ELSE IF key /= "output_dir"
     THEN [code |-> 200, state |-> saved]
     ELSE IF ~mkdirOK
     THEN [code |-> 400, state |-> saved]
     ELSE [code |-> 200,
           state |-> [saved EXCEPT !.outputDir = value,
                                   !.jqOutputDir = value]]

\* the handler leaves the configuration in state st
Configure(st) ==
  /\ cfg' = st.cfg
  /\ configFile' = st.configFile
  /\ outputDir' = st.outputDir
  /\ jqOutputDir' = st.jqOutputDir

handleSetConfig(key, value, saveOK, mkdirOK) ==
  /\ Configure(SetConfig(key, value, saveOK, mkdirOK).state)
  /\ UNCHANGED <<apiKey, hls, limits, disk, jobs, queue, nextID, now, worker,
                 stream, acc, http, observed, invoked>>

\* handleUpdateConfig (PUT /api/config): a non-empty OutputDir whose
\* directory could be made becomes the output directory of the server and
\* of the job queue and is saved; a failed save is logged
UpdateConfig(dir, saveOK, mkdirOK) ==
  LET before == ConfigState
  IN IF dir = <<>>
     THEN [code |-> 200, state |-> before]
     ELSE IF ~mkdirOK
     THEN [code |-> 400, state |-> before]
     ELSE [code |-> 200,
           state |-> [before EXCEPT
                        !.outputDir = dir,
                        !.jqOutputDir = dir,
                        !.configFile =
                          IF saveOK THEN [configFile EXCEPT !.OutputDir = dir]
                          ELSE configFile]]

handleUpdateConfig(dir, saveOK, mkdirOK) ==
  /\ Configure(UpdateConfig(dir, saveOK, mkdirOK).state)
  /\ UNCHANGED <<apiKey, hls, limits, disk, jobs, queue, nextID, now, worker,
                 stream, acc, http, observed, invoked>>

\* ------------------------------------------------ the engine as one call
\* downloadWithExtractor seen from the queue: representative results of one
\* call (success, a failure, a cancellation returned bare by downloadFile
\* and one wrapped by downloadVideoWithAudio); a cancellation is returned
\* only once the context is done
EngineResults(done) ==
  {Nil, StatusError(404)}
  \cup (IF done
        THEN {Canceled, Wrap("failed to download video stream", Canceled)}
        ELSE {})

downloadWithExtractor(w, err) ==
  /\ worker[w].pc = "extract"
  /\ err \in EngineResults(ctxDone(w))
  /\ worker' = [worker EXCEPT ![w].pc = "ret", ![w].ret = err]
  /\ UNCHANGED <<apiKey, config, hls, limits, outputDir, disk, jobs, queue,
                 nextID, now, stream, acc, http, observed, invoked>>

\* ----------------------------------------------------------- specification
\* the server and its queue, the download function taken as one call
Next ==
  \/ AddJob(UrlJob, <<>>)
  \/ \E w \in Workers : workerTake(w)
  \/ \E w \in Workers : \E err \in EngineResults(TRUE) :
       downloadWithExtractor(w, err)
  \/ \E w \in Workers : processJobFinish(w)
  \/ cleanupOldJobs
  \/ Tick
  \/ \E id \in 0..limits.maxJobs : handleDeleteJobCancel(id)
  \/ handleDeleteJobRemove
  \/ handleClearJobs
  \/ Respond

Spec == Init /\ [][Next]_vars

\* one job from submission to its end, the download function step by step
Next1 ==
  \/ AddJob(UrlJob, <<>>)
  \/ \E w \in Workers : workerTake(w)
  \/ \E w \in Workers : processJobFinish(w)
  \/ \E id \in 0..limits.maxJobs : handleDeleteJobCancel(id)
  \/ handleDeleteJobRemove
  \/ Respond
  \/ \E w \in Workers : \E m \in Medias \cup {[type |-> "error"]} :
       Extract(w, m)
  \/ \E w \in Workers : \E s \in Streams :
       \E o \in RequestOutcomes(TRUE) : downloadFileRequest(w, s, o)
  \/ \E w \in Workers : \E s \in Streams : downloadFileCheck(w, s)
  \/ \E w \in Workers : \E s \in Streams :
       \E o \in (0..BufSize) \X {"nil", "eof", "err", "canceled"} :
         \E writeOK \in BOOLEAN : downloadFileRead(w, s, o, writeOK)
  \/ \E w \in Workers : \E s \in Streams : reportProgressLock(w, s)
  \/ \E w \in Workers : \E s \in Streams : reportProgressCall(w, s)
  \/ \E w \in Workers : plainReturn(w)
  \/ \E w \in Workers : \E remux \in Remuxes : dualReturn(w, remux)
  \/ \E w \in Workers : imageNext(w)

Spec1 == Init1 /\ [][Next1]_vars

\* ------------------------------------------- names, paths and strategies
\* fetch URLs: a plain one, manifest URLs (bare, in upper case, with a query
\* string) and one that goes on after the manifest suffix
UrlM == <<"v">> \o DotM3u8
UrlMUpper == <<"v", ".", "M", "3", "U", "8">>
UrlMQuery == UrlM \o <<"?", "k">>
UrlMX == UrlM \o <<"x">>
UrlSM == <<"s">> \o DotM3u8
UrlSMQuery == UrlSM \o <<"?", "k">>

\* titles: one that is kept, one made of path-unsafe characters, none
Titles == {TitleT, <<"/", ":">>, <<>>}

\* the filenames clients ask for: none, a bare name, names that carry an
\* extension, a name with a path separator
Filenames ==
  { <<>>, <<"c">>, <<"c", ".", "M", "P", "4">>, <<"c", ".", "t", "s">>,
    <<"a", "/", "c">> }

\* what Extract may answer: videos of one format over the fetch URLs, with
\* and without paired audio; videos over the titles and extensions; videos
\* of several formats; audio over plain and manifest URLs; images
Medias2 ==
  { Video(TitleT, MediaID, <<Fmt(url, audio, 500, ext)>>) :
      url \in {UrlV, UrlM, UrlMUpper, UrlMQuery, UrlMX},
      audio \in {<<>>, UrlA}, ext \in {Mp4, M3u8} }
  \cup { Video(title, MediaID, <<Fmt(UrlV, <<>>, 500, ext)>>) :
           title \in Titles, ext \in {Mp4, M3u8, Webm} }
  \cup { Video(TitleT, MediaID, <<Fmt(UrlV, UrlA, 500, Webm)>>),
         Video(TitleT, MediaID, <<Fmt(UrlV, <<>>, 500, Mp4),
                                  Fmt(UrlW, UrlA, 300, Mp4),
                                  Fmt(UrlM, <<>>, 900, M3u8)>>),
         Video(TitleT, MediaID, <<>>) }
  \cup { Audio(title, MediaID, url, Mp3) :
           title \in {TitleT, <<>>}, url \in {UrlS, UrlSM, UrlSMQuery} }
  \cup { Images(title, MediaID, [i \in 1..n |-> Img(UrlI, Jpg)]) :
           title \in {TitleT, <<>>}, n \in 0..MaxImages }

\* one job from submission to its end, every fetch as one call, while
\* clients change the output directory
Next2 ==
  \/ \E filename \in Filenames : AddJob(UrlJob, filename)
  \/ \E w \in Workers : workerTake(w)
  \/ \E w \in Workers : processJobFinish(w)
  \/ \E id \in 0..limits.maxJobs : handleDeleteJobCancel(id)
  \/ handleDeleteJobRemove
  \/ Respond
  \/ \E w \in Workers : \E m \in Medias2 \cup {[type |-> "error"]} :
       Extract(w, m)
  \/ \E w \in Workers : \E s \in Streams : \E o \in FileOutcomes(TRUE) :
       downloadFile(w, s, o)
  \/ \E w \in Workers :
       \E o \in HLSOutcomes(worker[w].outputPath, TRUE) :
         DownloadHLSWithProgress(w, o)
  \/ \E w \in Workers : plainReturn(w)
  \/ \E w \in Workers : \E remux \in Remuxes : dualReturn(w, remux)
  \/ \E w \in Workers : imageNext(w)
  \/ \E value \in {DirD, DirE} :
       handleSetConfig("output_dir", value, TRUE, TRUE)
  \/ \E dir \in {DirD, DirE} : handleUpdateConfig(dir, TRUE, TRUE)

Spec2 == Init1 /\ [][Next2]_vars

\* ------------------------------------------------------- selectBestFormat
\* the bitrates formats come with, and the lists of formats Extract answers
Bitrates == {300, 500, 900}
FormatLists ==
  UNION { [1..n -> {Fmt(UrlV, audio, bitrate, Mp4) :
                      audio \in {<<>>, UrlA}, bitrate \in Bitrates}] :
          n \in 0..MaxFormats }

\* a worker at the Video case of downloadWithExtractor, Extract having
\* answered a video with any of the lists
Init3 ==
  \E formats \in FormatLists :
    /\ limits = [maxConcurrent |-> 1, maxJobs |-> 1]
    /\ jobs = <<>>
    /\ queue = <<>>
    /\ nextID = 1
    /\ now = 0
    /\ worker = <<[IdleWorker EXCEPT
                     !.pc = "select",
                     !.media = Video(TitleT, MediaID, formats)]>>
    /\ stream = <<[s \in Streams |-> IdleStream]>>
    /\ acc = <<ZeroAcc>>
    /\ http = NoRequest
    /\ outputDir = DirD
    /\ disk = {}
    /\ observed = <<>>
    /\ invoked = <<>>
    /\ InitServer(limits, NoKey)

\* format := selectBestFormat(m.Formats)
selectFormat(w) ==
  /\ worker[w].pc = "select"
  /\ worker' = [worker EXCEPT ![w].pc = "selected",
                  ![w].format = selectBestFormat(worker[w].media.Formats)]
  /\ UNCHANGED <<apiKey, config, hls, limits, outputDir, disk, jobs, queue,
                 nextID, now, stream, acc, http, observed, invoked>>

Next3 == \E w \in Workers : selectFormat(w)

Spec3 == Init3 /\ [][Next3]_vars
\* --------------------------------------------------------- HLS downloader
\* a manifest lists up to MaxSegments segments of up to MaxSegmentSize
\* bytes; InnerLimit segments are fetched at a time
MaxSegments == 3
MaxSegmentSize == 2
InnerLimit == 2

\* the keys of a manifest; 0: the manifest names no key
Keys == {0, 7}

Manifests ==
  UNION {[1..n -> 1..MaxSegmentSize] : n \in 1..MaxSegments}

\* the bytes of segment i before encryption
Plaintext(i, size) == [k \in 1..size |-> 10 * i + k]

\* the cipher, with the IV derived from the sequence number
Encrypt(bytes, key, i) ==
  [k \in DOMAIN bytes |-> (bytes[k] + key + i) % 256]

Decrypt(bytes, key, i) ==
  [k \in DOMAIN bytes |-> (bytes[k] + 256 - ((key + i) % 256)) % 256]

\* the bytes the origin serves for segment i
Served(i) ==
  IF hls.key = 0 THEN Plaintext(i, hls.sizes[i])
  ELSE Encrypt(Plaintext(i, hls.sizes[i]), hls.key, i)

Segments == DOMAIN hls.sizes

InFlight == {i \in Segments : hls.segment[i] = "fetching"}

Written == {i \in Segments : hls.segment[i] = "written"}

\* the segment the writer waits for
NextSegment == Cardinality(Written) + 1

\* a server with a worker in the HLS downloader
Init4 ==
  /\ InitWith([maxConcurrent |-> 1, maxJobs |-> 1])

\* step 1: the manifest is fetched and parsed
parseManifest(sizes, key) ==
  /\ hls.pc = "idle"
  /\ hls' = [IdleHLS EXCEPT
               !.pc = "segments", !.sizes = sizes, !.key = key,
               !.segment = [i \in DOMAIN sizes |-> "pending"],
               !.buffer = [i \in DOMAIN sizes |-> <<>>],
               !.writes = [i \in DOMAIN sizes |-> 0]]
  /\ UNCHANGED <<apiKey, config, limits, outputDir, disk, jobs, queue,
                 nextID, now, worker, stream, acc, http, observed, invoked>>

\* step 3: the fetch of a segment begins when the inner limit allows
fetchSegment(i) ==
  /\ hls.pc = "segments"
  /\ i \in Segments
  /\ hls.segment[i] = "pending"
  /\ Cardinality(InFlight) < InnerLimit
  /\ hls' = [hls EXCEPT !.segment[i] = "fetching"]
  /\ UNCHANGED <<apiKey, config, limits, outputDir, disk, jobs, queue,
                 nextID, now, worker, stream, acc, http, observed, invoked>>

\* steps 2 and 3: a fetch completes; the bytes are decrypted and buffered,
\* or the fetch or the decryption failed and the download is over
completeSegment(i, ok) ==
  /\ hls.pc = "segments"
  /\ i \in InFlight
  /\ hls' = IF ok
            THEN [hls EXCEPT
                    !.segment[i] = "fetched",
                    !.arrived = Append(@, i),
                    !.buffer[i] = IF hls.key = 0 THEN Served(i)
                                  ELSE Decrypt(Served(i), hls.key, i)]
            ELSE [hls EXCEPT !.pc = "failed", !.err = Err("hls")]
  /\ UNCHANGED <<apiKey, config, limits, outputDir, disk, jobs, queue,
                 nextID, now, worker, stream, acc, http, observed, invoked>>

\* a writer that writes segments as they arrive
writeSegmentArrived(i) ==
  /\ hls.pc = "segments"
  /\ i \in Segments
  /\ hls.segment[i] = "fetched"
  /\ hls' = [hls EXCEPT !.segment[i] = "written",
                        !.out = @ \o hls.buffer[i],
                        !.buffer[i] = <<>>,
                        !.writes[i] = @ + 1]
  /\ UNCHANGED <<apiKey, config, limits, outputDir, disk, jobs, queue,
                 nextID, now, worker, stream, acc, http, observed, invoked>>

\* steps 3 and 5: a buffered segment is written once its predecessors are
writeSegment(i) ==
  /\ hls.pc = "segments"
  /\ i \in Segments
  /\ i = NextSegment
  /\ hls.segment[i] = "fetched"
  /\ hls' = [hls EXCEPT !.segment[i] = "written",
                        !.out = @ \o hls.buffer[i],
                        !.buffer[i] = <<>>,
                        !.writes[i] = @ + 1]
  /\ UNCHANGED <<apiKey, config, limits, outputDir, disk, jobs, queue,
                 nextID, now, worker, stream, acc, http, observed, invoked>>

\* every segment is written: the download returns
finishSegments ==
  /\ hls.pc = "segments"
  /\ Written = Segments
  /\ hls' = [hls EXCEPT !.pc = "done"]
  /\ UNCHANGED <<apiKey, config, limits, outputDir, disk, jobs, queue,
                 nextID, now, worker, stream, acc, http, observed, invoked>>

Next4 ==
  \/ \E sizes \in Manifests : \E key \in Keys : parseManifest(sizes, key)
  \/ \E i \in 1..MaxSegments : fetchSegment(i)
  \/ \E i \in 1..MaxSegments : \E ok \in BOOLEAN : completeSegment(i, ok)
  \/ \E i \in 1..MaxSegments : writeSegment(i)
  \/ finishSegments

Spec4 == Init4 /\ [][Next4]_vars

\* ------------------------------------------------------------- HTTP front
\* the paths of the routes Start registers, a job's path, and the index
Path ==
  LET api == <<"/", "a", "p", "i", "/">>
      auth == api \o <<"a", "u", "t", "h", "/">>
      jobsPath == api \o <<"j", "o", "b", "s">>
  IN [api |-> api,
      health |-> api \o <<"h", "e", "a", "l", "t", "h">>,
      auth |-> auth,
      authStatus |-> auth \o <<"s", "t", "a", "t", "u", "s">>,
      authToken |-> auth \o <<"t", "o", "k", "e", "n">>,
      download |-> api \o <<"d", "o", "w", "n", "l", "o", "a", "d">>,
      job |-> jobsPath \o <<"/", Itoa(1)>>,
      config |-> api \o <<"c", "o", "n", "f", "i", "g">>,
      index |-> <<"/">>]

\* lifetimes of the tokens, in hours
SessionDuration == 24
APITokenDuration == 365 * 24

\* API keys: the server's, if it has one, and another
KeyK == <<"k">>
KeyX == <<"x">>

\* a JWT is the claims it carries and the key its signature was made with
NoToken == [type |-> "none", key |-> NoKey, nbf |-> 0, exp |-> 0]

\* a token signed with the API key of the saved configuration
generateJWTConfigured(tokenType, duration) ==
  [type |-> tokenType, key |-> cfg.APIKey, nbf |-> now, exp |-> now + duration]

\* s.generateJWT(tokenType, duration, customPayload)
generateJWT(tokenType, duration) ==
  [type |-> tokenType, key |-> apiKey, nbf |-> now, exp |-> now + duration]

\* a validation that accepts any signature
validateJWTUnsigned(token) ==
  /\ token.type /= "none"
  /\ token.nbf <= now
  /\ now < token.exp

\* s.validateJWT(tokenString) returns no error: the signature was made with
\* the API key and the registered claims hold now
validateJWT(token) ==
  /\ token.type /= "none"
  /\ token.key = apiKey
  /\ token.nbf <= now
  /\ now < token.exp

\* jwtAuthMiddleware calls c.Next() for request r
jwtAuthMiddleware(r) ==
  IF ~HasPrefix(r.path, Path.api) THEN TRUE
  ELSE IF r.path = Path.health THEN TRUE
  ELSE IF HasPrefix(r.path, Path.auth) THEN TRUE
  ELSE IF apiKey = NoKey THEN TRUE
  ELSE IF r.cookie /= NoToken /\ validateJWT(r.cookie) THEN TRUE
  ELSE r.bearer /= NoToken /\ validateJWT(r.bearer)

\* s.setSessionCookie(c): the cookie it sets for request r, NoToken if none
setSessionCookie(r) ==
  IF apiKey = NoKey THEN NoToken
  ELSE IF r.cookie /= NoToken /\ validateJWT(r.cookie) THEN NoToken
  ELSE generateJWT("session", SessionDuration)

\* the working directory of the server
Cwd == <<"/", "w">>

\* the elements of a path, between its separators
RECURSIVE Split(_)
Split(path) ==
  IF path = <<>> THEN << <<>> >>
  ELSE LET rest == Split(Tail(path))
       IN IF Head(path) = "/" THEN << <<>> >> \o rest
          ELSE << <<Head(path)>> \o Head(rest) >> \o Tail(rest)

\* filepath.Clean on the elements of a rooted path: empty elements and "."
\* are dropped, ".." drops the element before it
RECURSIVE Clean(_, _)
Clean(elements, kept) ==
  IF elements = <<>> THEN kept
  ELSE LET e == Head(elements)
       IN IF e = <<>> \/ e = <<".">> THEN Clean(Tail(elements), kept)
          ELSE IF e = <<".", ".">>
          THEN Clean(Tail(elements),
                     IF kept = <<>> THEN kept
                     ELSE SubSeq(kept, 1, Len(kept) - 1))
          ELSE Clean(Tail(elements), Append(kept, e))

RECURSIVE Rooted(_)
Rooted(elements) ==
  IF elements = <<>> THEN <<>>
  ELSE <<"/">> \o Head(elements) \o Rooted(Tail(elements))

\* filepath.Abs(path)
Abs(path) ==
  LET rooted == IF path /= <<>> /\ Head(path) = "/" THEN path
                ELSE Join(Cwd, path)
      elements == Clean(Split(rooted), <<>>)
  IN IF elements = <<>> THEN <<"/">> ELSE Rooted(elements)

\* a file download that compares whole path elements
handleFileDownloadElements(filePath) ==
  IF filePath = <<>> THEN [code |-> 400, file |-> <<>>]
  ELSE LET absPath == Abs(filePath)
           absOutputDir == Abs(outputDir)
       IN IF ~(absPath = absOutputDir
               \/ HasPrefix(absPath, absOutputDir \o <<"/">>))
          THEN [code |-> 403, file |-> <<>>]
          ELSE IF absPath \notin disk THEN [code |-> 404, file |-> <<>>]
          ELSE [code |-> 200, file |-> absPath]

\* handleFileDownload with the query parameter path: the status and the file
\* whose content is served
handleFileDownload(filePath) ==
  IF filePath = <<>> THEN [code |-> 400, file |-> <<>>]
  ELSE LET absPath == Abs(filePath)
           absOutputDir == Abs(outputDir)
       IN IF ~HasPrefix(absPath, absOutputDir)
          THEN [code |-> 403, file |-> <<>>]
          ELSE IF absPath \notin disk THEN [code |-> 404, file |-> <<>>]
          ELSE [code |-> 200, file |-> absPath]

\* handleDeleteJob in one piece: the status and the jobs afterwards
handleDeleteJob(id) ==
  LET cancel == CancelJob(jobs, id)
      remove == RemoveJob(jobs, id)
  IN IF cancel[1] THEN [code |-> 200, jobs |-> cancel[2]]
     ELSE IF remove[1] THEN [code |-> 200, jobs |-> remove[2]]
     ELSE [code |-> 404, jobs |-> jobs]

\* the files on disk when the server starts
DirD2 == <<"/", "d", "2">>
FileF == <<"f">>
Files == {Join(DirD, FileF), Join(DirD2, FileF), Join(DirE, FileF)}

\* the tokens clients hold beside those the server hands out: signed with
\* the server's key or with another, with a short or a long life
Tokens ==
  {[type |-> "api", key |-> KeyK, nbf |-> 0, exp |-> e] :
     e \in {1, APITokenDuration}}
  \cup {[type |-> "api", key |-> KeyX, nbf |-> 0, exp |-> APITokenDuration]}

\* what a request can carry: nothing, a token of a client, or the token of
\* the last answer
Carried ==
  {NoToken} \cup Tokens
  \cup (IF http.pc = "served" /\ http.token /= NoToken
        THEN {http.token} ELSE {})

\* a request carries a token as its cookie, as its bearer token, or both,
\* then with the cookie signed with another key
Credentials ==
  {<<token, NoToken>> : token \in Carried}
  \cup {<<NoToken, token>> : token \in Carried}
  \cup {<<[type |-> "api", key |-> KeyX, nbf |-> 0,
           exp |-> APITokenDuration], token>> : token \in Carried}

\* the requests clients send
Request(method, path, credentials) ==
  [method |-> method, path |-> path, cookie |-> credentials[1],
   bearer |-> credentials[2], key |-> "", value |-> <<>>, query |-> <<>>]

\* one request to each route, and one to no route, with any credentials
Requests ==
  UNION {
    {Request(route[1], route[2], credentials) :
       route \in {<<"GET", Path.health>>, <<"GET", Path.authStatus>>,
                  <<"POST", Path.authToken>>, <<"POST", Path.download>>,
                  <<"DELETE", Path.job>>, <<"GET", Path.index>>}}
    \cup {[Request("POST", Path.config, credentials)
             EXCEPT !.key = "output_dir", !.value = DirE],
          [Request("PUT", Path.config, credentials) EXCEPT !.value = DirE],
          [Request("GET", Path.download, credentials)
             EXCEPT !.query = Join(DirD, FileF)]}
    : credentials \in Credentials }

\* requests to the configuration and for files, by a client with a token
ConfigRequests ==
  LET credentials ==
        <<NoToken, [type |-> "api", key |-> KeyK, nbf |-> 0,
                    exp |-> APITokenDuration]>>
  IN {[Request("POST", Path.config, credentials)
         EXCEPT !.key = body[1], !.value = body[2]] :
        body \in {<<"output_dir", DirD>>, <<"output_dir", DirE>>,
                  <<"language", <<"e", "n">> >>,
                  <<"server.max_concurrent", <<"3">> >>,
                  <<"server.max_concurrent", <<"x">> >>,
                  <<"nope", DirE>>, <<"", DirE>>}}
     \cup {[Request("PUT", Path.config, credentials)
              EXCEPT !.value = dir] : dir \in {<<>>, DirD, DirE}}
     \cup {[Request("GET", Path.download, credentials)
              EXCEPT !.query = path] :
             path \in {Join(DirD, FileF), Join(DirD2, FileF),
                       Join(DirE, FileF), FileF, <<>>, DirD,
                       Join(Join(DirD, <<".", ".">>), <<"e">>) \o <<"/", "f">>,
                       Join(DirD, <<"g">>)}}

\* the answer to an unrouted request, and the state a handler leaves
NoRoute ==
  [code |-> 404, handled |-> FALSE, token |-> NoToken, file |-> <<>>,
   jobs |-> jobs, queue |-> queue, nextID |-> nextID, state |-> ConfigState]

\* the handler of the route of request r
Route(r, saveOK, mkdirOK) ==
  LET ran == [NoRoute EXCEPT !.handled = TRUE, !.code = 200]
      route == <<r.method, r.path>>
  IN CASE route = <<"GET", Path.health>> -> ran
       [] route = <<"GET", Path.authStatus>> -> ran
       [] route = <<"POST", Path.authToken>> ->
            IF apiKey = NoKey THEN [ran EXCEPT !.code = 500]
            ELSE [ran EXCEPT !.code = 201,
                             !.token = generateJWT("api", APITokenDuration)]
       [] route = <<"GET", Path.download>> ->
            [ran EXCEPT !.code = handleFileDownload(r.query).code,
                        !.file = handleFileDownload(r.query).file]
       [] route = <<"POST", Path.download>> ->
            [ran EXCEPT
               !.jobs = [id \in DOMAIN jobs \cup {nextID} |->
                           IF id = nextID THEN NewJob(UrlJob, <<>>)
                           ELSE jobs[id]],
               !.queue = Append(queue, nextID),
               !.nextID = nextID + 1]
       [] route = <<"DELETE", Path.job>> ->
            [ran EXCEPT !.code = handleDeleteJob(1).code,
                        !.jobs = handleDeleteJob(1).jobs]
       [] route = <<"POST", Path.config>> ->
            [ran EXCEPT
               !.code = SetConfig(r.key, r.value, saveOK, mkdirOK).code,
               !.state = SetConfig(r.key, r.value, saveOK, mkdirOK).state]
       [] route = <<"PUT", Path.config>> ->
            [ran EXCEPT
               !.code = UpdateConfig(r.value, saveOK, mkdirOK).code,
               !.state = UpdateConfig(r.value, saveOK, mkdirOK).state]
       [] OTHER -> NoRoute

\* the engine Start builds serves request r: the middleware, installed if
\* the server has an API key, then the handler of the route
ServeHTTP(r, saveOK, mkdirOK) ==
  /\ <<r.method, r.path>> = <<"POST", Path.download>>
       => nextID <= limits.maxJobs
  /\ \E answer \in {IF apiKey = NoKey \/ jwtAuthMiddleware(r)
                      THEN Route(r, saveOK, mkdirOK)
                      ELSE [NoRoute EXCEPT !.code = 401]} :
        /\ http' = [pc |-> "served", req |-> r, code |-> answer.code,
                    handled |-> answer.handled, token |-> answer.token,
                    setCookie |-> NoToken, file |-> answer.file]
        /\ jobs' = answer.jobs
        /\ queue' = answer.queue
        /\ nextID' = answer.nextID
        /\ observed' = [id \in DOMAIN answer.jobs \cup DOMAIN observed |->
                          IF id \in DOMAIN observed
                          THEN Observe(observed, jobs, answer.jobs)[id]
                          ELSE <<JobStatusQueued>>]
        /\ invoked' = [id \in DOMAIN answer.jobs \cup DOMAIN invoked |->
                         IF id \in DOMAIN invoked THEN invoked[id] ELSE 0]
        /\ Configure(answer.state)
  /\ UNCHANGED <<apiKey, hls, limits, disk, now, worker, stream, acc>>

\* a server started with or without an API key, files on its disk
Init5 ==
  \E key \in {NoKey, KeyK} :
    /\ limits = [maxConcurrent |-> 1, maxJobs |-> 1]
    /\ jobs = <<>>
    /\ queue = <<>>
    /\ nextID = 1
    /\ now = 0
    /\ worker = <<IdleWorker>>
    /\ stream = <<[s \in Streams |-> IdleStream]>>
    /\ acc = <<ZeroAcc>>
    /\ http = NoRequest
    /\ outputDir = DirD
    /\ disk = Files
    /\ observed = <<>>
    /\ invoked = <<>>
    /\ InitServer(limits, key)

Next5 ==
  \/ \E r \in Requests : ServeHTTP(r, TRUE, TRUE)
  \/ Tick

Spec5 == Init5 /\ [][Next5]_vars

\* the same server while clients configure it and fetch files
Next6 ==
  \E r \in ConfigRequests : \E saveOK, mkdirOK \in BOOLEAN :
    ServeHTTP(r, saveOK, mkdirOK)

Spec6 == Init5 /\ [][Next6]_vars

\* requests of clients that change the API key of the configuration, ask
\* for tokens and use them
KeyRequests ==
  UNION {
    {Request(route[1], route[2], credentials) :
       route \in {<<"GET", Path.authStatus>>, <<"POST", Path.authToken>>,
                  <<"DELETE", Path.job>>}}
    \cup {[Request("POST", Path.config, credentials)
             EXCEPT !.key = "server.api_key", !.value = value] :
            value \in {NoKey, KeyK, KeyX}}
    : credentials \in Credentials }

\* the same server while clients set server.api_key
Next8 ==
  \/ \E r \in KeyRequests : ServeHTTP(r, TRUE, TRUE)
  \/ Tick

Spec8 == Init5 /\ [][Next8]_vars

\* ------------------------------------------------ jobs that share a URL
\* a second source URL, and the names clients ask for
UrlOther == <<"o">>
NameA == <<"a">>
NameB == <<"b">>

\* two submissions of plain videos, to the same URL or to two
Init7 ==
  InitWith([maxConcurrent |-> MaxConcurrent, maxJobs |-> 2])

Next7 ==
  \/ \E url \in {UrlJob, UrlOther} : \E filename \in {NameA, NameB} :
       AddJob(url, filename)
  \/ \E w \in Workers : workerTake(w)
  \/ \E w \in Workers :
       Extract(w, Video(TitleT, MediaID, <<Fmt(UrlV, <<>>, 500, Mp4)>>))
  \/ \E w \in Workers : \E o \in FileOutcomes(TRUE) :
       downloadFile(w, "video", o)
  \/ \E w \in Workers : plainReturn(w)
  \/ \E w \in Workers : processJobFinish(w)

Spec7 == Init7 /\ [][Next7]_vars

\* ------------------------------------------------- scheduling of the pool
\* one worker and two submissions, a video and then a URL the extractor
\* cannot resolve: the second job waits in the backlog while the first is
\* downloaded
Init9 ==
  InitWith([maxConcurrent |-> 1, maxJobs |-> 2])

\* what Extract answers there: for the first URL a video with paired audio
\* or a plain video, for the other URL an error
LiveMedias(url) ==
  IF url = UrlJob
  THEN { Video(TitleT, MediaID, <<Fmt(UrlW, UrlA, 300, Mp4)>>),
         Video(TitleT, MediaID, <<Fmt(UrlV, <<>>, 500, Mp4)>>) }
  ELSE { [type |-> "error"] }

\* the responses there: a failed request, a cancelled one, and a body of
\* unknown length, which ends after MaxBody bytes at the latest
LiveResponses ==
  {o \in RequestOutcomes(TRUE) :
     /\ o.status = 0 \/ o.err = Nil
     /\ o.err = Nil => o.total = -1}

\* the reads there: chunks of one byte
LiveReads == (0..1) \X {"nil", "eof", "err", "canceled"}

\* the steps of the pool's goroutines: the worker and, under it, the
\* download function with its sub-downloads
Next9 ==
  \/ AddJob(IF nextID = 1 THEN UrlJob ELSE UrlOther, <<>>)
  \/ \E w \in Workers : workerTake(w)
  \/ \E w \in Workers : processJobFinish(w)
  \/ \E id \in 1..limits.maxJobs : handleDeleteJobCancel(id)
  \/ handleDeleteJobRemove
  \/ Respond
  \/ \E w \in Workers : \E m \in LiveMedias(worker[w].url) : Extract(w, m)
  \/ \E w \in Workers : \E s \in Streams : \E o \in LiveResponses :
       downloadFileRequest(w, s, o)
  \/ \E w \in Workers : \E s \in Streams : downloadFileCheck(w, s)
  \/ \E w \in Workers : \E s \in Streams : \E o \in LiveReads :
       downloadFileRead(w, s, o, TRUE)
  \/ \E w \in Workers : \E s \in Streams : reportProgressLock(w, s)
  \/ \E w \in Workers : \E s \in Streams : reportProgressCall(w, s)
  \/ \E w \in Workers : plainReturn(w)
  \/ \E w \in Workers : \E remux \in Remuxes : dualReturn(w, remux)

\* the Go scheduler runs every goroutine that can run: the worker, the
\* download function it calls and the two goroutines of a dual-stream
\* download each take their next step; a request or a read that has been
\* made comes to an end. Clients submit and cancel as they please.
Fairness9 ==
  \A w \in 1..1 :
    /\ WF_vars(workerTake(w))
    /\ WF_vars(processJobFinish(w))
    /\ WF_vars(\E m \in LiveMedias(worker[w].url) : Extract(w, m))
    /\ WF_vars(plainReturn(w))
    /\ WF_vars(\E remux \in Remuxes : dualReturn(w, remux))
    /\ \A s \in Streams :
         /\ WF_vars(\E o \in LiveResponses : downloadFileRequest(w, s, o))
         /\ WF_vars(downloadFileCheck(w, s))
         /\ WF_vars(\E o \in LiveReads : downloadFileRead(w, s, o, TRUE))
         /\ WF_vars(reportProgressLock(w, s))
         /\ WF_vars(reportProgressCall(w, s))

Spec9 == Init9 /\ [][Next9]_vars /\ Fairness9

\* ------------------------------------------------------------------ claims
Range(q) == {q[i] : i \in DOMAIN q}
Downloading == {id \in DOMAIN jobs : jobs[id].Status = JobStatusDownloading}
Removed == DOMAIN observed \ DOMAIN jobs

\* the Status sequences of a job: Queued, Downloading, one terminal state,
\* or a beginning of that; Downloading is left out only by a job cancelled
\* while Queued
Lifecycles ==
  { <<JobStatusQueued>>,
    <<JobStatusQueued, JobStatusDownloading>>,
    <<JobStatusQueued, JobStatusCancelled>> }
  \cup { <<JobStatusQueued, JobStatusDownloading, t>> : t \in TerminalStatus }

C2_ConcurrencyBound == Cardinality(Downloading) <= limits.maxConcurrent

\* the pool is full and a Queued job waits in the backlog
C2_Witness ==
  /\ Cardinality(Downloading) = limits.maxConcurrent
  /\ \E id \in Range(queue) :
       id \in DOMAIN jobs /\ jobs[id].Status = JobStatusQueued

\* the DELETE handler has just called CancelJob(id)
CancelJobStep(id) ==
  /\ http.pc = "none"
  /\ http'.pc \in {"done", "remove"}
  /\ http'.id = id

\* C3: CancelJob on a Queued job makes it Cancelled in that step; from then
\* on its only Status is Cancelled and no worker calls the download function
\* for it, although it stays in the backlog until a worker takes it.
C3_CancelQueued ==
  /\ [][\A id \in DOMAIN jobs :
          CancelJobStep(id) /\ jobs[id].Status = JobStatusQueued
            => /\ jobs'[id].Status = JobStatusCancelled
               /\ observed'[id] = <<JobStatusQueued, JobStatusCancelled>>
               /\ id \in Range(queue')]_vars
  /\ [][\A id \in DOMAIN observed :
          observed[id] = <<JobStatusQueued, JobStatusCancelled>>
            => /\ observed'[id] = observed[id]
               /\ invoked'[id] = 0
               /\ \A w \in Workers : worker'[w].job /= id]_vars

\* a worker has reached a job that was cancelled while Queued
C3_Witness ==
  \E id \in DOMAIN observed :
    /\ observed[id] = <<JobStatusQueued, JobStatusCancelled>>
    /\ id \notin Range(queue)
    /\ \E other \in DOMAIN observed : other > id /\ invoked[other] = 1

\* C4: CancelJob(id) returns true exactly when the job exists and is Queued
\* or Downloading; for a Downloading job it sets the cancellation signal and
\* nothing else; when it returns false nothing in the queue changes.
C4_CancelJobResult ==
  [][\A id \in 0..limits.maxJobs :
       CancelJobStep(id)
         => LET active == id \in DOMAIN jobs
                          /\ jobs[id].Status \in ActiveStatus
            IN /\ http'.cancelled <=> active
               /\ (active /\ jobs[id].Status = JobStatusDownloading)
                    => jobs' = [jobs EXCEPT ![id].ctxDone = TRUE]
               /\ ~http'.cancelled
                    => UNCHANGED <<jobs, queue, worker, observed, invoked>>
    ]_vars

\* CancelJob has returned true for a job that is still Downloading
C4_Witness ==
  /\ http.pc = "done"
  /\ http.cancelled
  /\ http.id \in DOMAIN jobs
  /\ jobs[http.id].Status = JobStatusDownloading
  /\ jobs[http.id].ctxDone

\* the DELETE handler has just called RemoveJob
RemoveJobStep == http.pc = "remove" /\ http'.pc = "done"

\* C5: a job leaves the map only in a terminal state; when neither RemoveJob
\* nor ClearHistory took it out (the retention sweep did), it had been
\* terminal for longer than the retention window; RemoveJob on an active or
\* unknown id returns false and leaves the map as it was.
C5_OnlyTerminalRemoved ==
  [][/\ \A id \in DOMAIN jobs \ DOMAIN jobs' :
          /\ jobs[id].Status \in TerminalStatus
          /\ http' = http => now - jobs[id].CompletedAt > RetentionHours
     /\ RemoveJobStep
          => LET id == http.id
                 terminal == id \in DOMAIN jobs
                             /\ jobs[id].Status \in TerminalStatus
             IN /\ http'.removed <=> terminal
                /\ ~terminal => jobs' = jobs
    ]_vars

\* RemoveJob has returned false for a job that is Queued or Downloading,
\* after an earlier job was taken out of the map
C5_Witness ==
  /\ http.pc = "done"
  /\ http.code = 404
  /\ http.id \in DOMAIN jobs
  /\ jobs[http.id].Status \in ActiveStatus
  /\ Removed /= {}

\* C6: ClearHistory removes exactly the jobs that are terminal when it is
\* called, whatever their age, returns their number and leaves every other
\* job in the map as it was.
C6_ClearHistoryExact ==
  [][http.pc = "none" /\ http'.pc = "cleared"
       => LET gone == {id \in DOMAIN jobs :
                         jobs[id].Status \in TerminalStatus}
          IN /\ DOMAIN jobs' = DOMAIN jobs \ gone
             /\ \A id \in DOMAIN jobs' : jobs'[id] = jobs[id]
             /\ http'.cleared = Cardinality(gone)
    ]_vars

\* in hour 0, when no job is old enough for the sweep, ClearHistory has
\* removed two jobs and a Downloading job is still in the map
C6_Witness ==
  /\ now = 0
  /\ http.pc = "cleared"
  /\ http.cleared = 2
  /\ Downloading /= {}
  /\ Cardinality(Removed) = 2

\* C9: the download function is called at most once for a job, a job is
\* held by at most one worker, and a job that a worker has taken is not in
\* the backlog again.
C9_SingleExecution ==
  /\ \A id \in DOMAIN invoked : invoked[id] <= 1
  /\ \A w1, w2 \in Workers :
       w1 /= w2 /\ worker[w1].job /= 0 => worker[w1].job /= worker[w2].job
  /\ \A i, j \in DOMAIN queue : i /= j => queue[i] /= queue[j]
  /\ \A id \in Range(queue) :
       invoked[id] = 0 /\ \A w \in Workers : worker[w].job /= id

\* a job has failed, its worker is idle again and the backlog is empty
C9_Witness ==
  /\ queue = <<>>
  /\ \A w \in Workers : worker[w].pc = "idle"
  /\ \E id \in DOMAIN jobs :
       jobs[id].Status = JobStatusFailed /\ invoked[id] = 1

\* C7: while a job is Downloading neither its Progress nor its Downloaded
\* counter decreases.
C7_ProgressMonotone ==
  [][\A id \in DOMAIN jobs \cap DOMAIN jobs' :
       jobs[id].Status = JobStatusDownloading
       /\ jobs'[id].Status = JobStatusDownloading
         => /\ PctLE(jobs[id].Progress, jobs'[id].Progress)
            /\ jobs[id].Downloaded <= jobs'[id].Downloaded
    ]_vars

\* C8: the Progress of every job lies between 0 and 100.
C8_ProgressInRange ==
  \A id \in DOMAIN jobs :
    /\ PctLE(PctZero, jobs[id].Progress)
    /\ PctLE(jobs[id].Progress, Pct(1, 1))

\* the error of the fetch that decides what the strategy returns
DecidingErr(w) ==
  IF worker[w].kind = "dual" /\ stream[w]["video"].err = Nil
  THEN stream[w]["audio"].err
  ELSE stream[w]["video"].err

\* C10: a fetch that finds the cancellation signal set ends with a
\* cancellation error; the error the engine returns is a cancellation exactly
\* when the error of the deciding fetch is one, wrapped or not; and a job
\* whose engine returned a cancellation ends Cancelled, one whose engine
\* returned any other error ends Failed.
C10_CancelledNotFailed ==
  [][\A w \in Workers :
       /\ \A s \in Streams :
            stream[w][s].pc = "check" /\ stream'[w][s].pc = "done"
              => stream'[w][s].err.cause = "canceled"
       /\ worker[w].pc = "run" /\ worker'[w].pc = "ret"
            => /\ worker'[w].ret = Nil <=> DecidingErr(w) = Nil
               /\ worker'[w].ret.cause = DecidingErr(w).cause
       /\ worker[w].pc = "ret" /\ worker'[w].pc = "idle"
            => LET err == worker[w].ret
                   job == jobs'[worker[w].job]
               IN /\ err.cause = "canceled"
                       => job.Status = JobStatusCancelled
                  /\ err /= Nil /\ err.cause /= "canceled"
                       => job.Status = JobStatusFailed
                  /\ err /= Nil => job.Error = err
    ]_vars

\* a dual-stream job ended Cancelled on the wrapped cancellation error of its
\* audio stream
C10_Witness ==
  \E id \in DOMAIN jobs :
    /\ jobs[id].Status = JobStatusCancelled
    /\ jobs[id].Error = Wrap("failed to download audio stream", Canceled)

\* C11: in downloadFile no chunk read begins once the job's context is done:
\* the select at the head of the loop, finding it done, ends the download
\* with the cancellation error and without another byte read or written; a
\* read is entered only with the context not done; so at most one read of a
\* download, the one already entered, happens with the context done.
C11_NoReadAfterCancel ==
  /\ [](\A w \in Workers : \A s \in Streams : stream[w][s].late <= 1)
  /\ [][\A w \in Workers : \A s \in Streams :
          /\ (/\ stream[w][s].pc = "check"
              /\ ctxDone(w)
              /\ stream'[w][s] /= stream[w][s])
               => stream'[w][s] = [stream[w][s] EXCEPT !.pc = "done",
                                                       !.err = Canceled]
          /\ (stream[w][s].pc /= "read" /\ stream'[w][s].pc = "read")
               => ~jobs[worker[w].job].ctxDone
       ]_vars

\* a download was cancelled while a read was under way; the read completed,
\* its bytes were written, and the check after it ended the download
C11_Witness ==
  \E w \in Workers : \E s \in Streams :
    /\ stream[w][s].pc = "done"
    /\ stream[w][s].err = Canceled
    /\ stream[w][s].late = 1
    /\ stream[w][s].downloaded >= 1

\* a fetch of the job the worker runs has failed
FetchFailed(w) ==
  \E s \in Streams : stream[w][s].pc = "done" /\ stream[w][s].err /= Nil

\* C12: once a fetch of a job has failed, no request is made and no chunk
\* is read for that job, by the sibling stream of a dual download either,
\* until the engine has returned.
C12_FailFast ==
  [][\A w \in Workers :
       worker[w].pc = "run" /\ FetchFailed(w)
         => \A s \in Streams :
              stream[w][s].pc \in {"request", "read"}
                => stream'[w][s] = stream[w][s]
    ]_vars

\* C20: every callback of a plain download carries the bytes written so far,
\* more than the callback before it, and the content length of the response,
\* zero when the length is unknown and never negative; there is one callback
\* for each chunk that is not empty and none for an empty one.
C20_CallbackArguments ==
  [][\A w \in Workers :
       (/\ worker[w].pc = "run"
        /\ worker[w].kind = "plain"
        /\ stream[w]["video"].pc = "read"
        /\ stream'[w]["video"] /= stream[w]["video"])
         => LET st == stream[w]["video"]
                after == stream'[w]["video"]
                id == worker[w].job
            IN IF after.downloaded > st.downloaded
               THEN /\ jobs'[id].Downloaded = after.downloaded
                    /\ jobs'[id].Downloaded > jobs[id].Downloaded
                    /\ jobs'[id].Total = IF st.total < 0 THEN 0 ELSE st.total
                    /\ jobs'[id].Total >= 0
               ELSE jobs' = jobs
    ]_vars

\* the formats of a list that no format of the list cand beats in bitrate
Highest(formats, cand) ==
  {i \in cand : \A j \in cand : formats[j].Bitrate <= formats[i].Bitrate}

\* C13: for a list of formats that is not empty selectBestFormat returns a
\* member of the list: one of highest bitrate among the formats with a
\* paired-audio URL when there is such a format, else one of highest bitrate
\* of all; of several such it is the first, so the same list gives the same
\* format.
C13_SelectBestFormat ==
  \A w \in Workers :
    worker[w].pc = "selected" /\ Len(worker[w].media.Formats) > 0
      => LET formats == worker[w].media.Formats
             withAudio == {i \in DOMAIN formats :
                             formats[i].AudioURL /= <<>>}
             cand == IF withAudio /= {} THEN withAudio ELSE DOMAIN formats
             best == worker[w].format
         IN /\ best \in DOMAIN formats
            /\ best \in Highest(formats, cand)
            /\ \A i \in Highest(formats, cand) : best <= i

\* over the bitrates 500 without audio, 300 with audio, 900 without audio
\* the format of bitrate 300 has been selected
C13_Witness ==
  \E w \in Workers :
    /\ worker[w].pc = "selected"
    /\ worker[w].media.Formats = <<Fmt(UrlV, <<>>, 500, Mp4),
                                   Fmt(UrlV, UrlA, 300, Mp4),
                                   Fmt(UrlV, <<>>, 900, Mp4)>>
    /\ worker[w].format = 2

\* the worker runs a strategy for a descriptor of the type, or has run it
Resolved(w, type) ==
  /\ worker[w].pc \in {"run", "ret"}
  /\ worker[w].kind /= "none"
  /\ worker[w].media.type = type

\* the URL ends in the manifest suffix, or does so before a query string,
\* in any case of the letters
ManifestURL(url) ==
  LET lower == ToLower(url)
  IN \E k \in 1..Len(lower) :
       /\ HasSuffix(SubSeq(lower, 1, k), DotM3u8)
       /\ k = Len(lower) \/ lower[k + 1] = "?"

\* C14: a job of a Video descriptor runs one strategy, and keeps it: the
\* dual-stream merger when the selected format has a paired-audio URL, also
\* with a manifest URL; else the HLS downloader when the fetch URL is a
\* manifest URL; else the plain downloader. Only the fetches of that
\* strategy run.
C14_VideoStrategy ==
  /\ [](\A w \in Workers :
          Resolved(w, "video")
            => LET format == worker[w].media.Formats[worker[w].format]
               IN /\ worker[w].kind =
                       IF format.AudioURL /= <<>> THEN "dual"
                       ELSE IF ManifestURL(format.URL) THEN "hls"
                       ELSE "plain"
                  /\ worker[w].kind = "hls"
                       => \A s \in Streams : stream[w][s].pc = "off"
                  /\ worker[w].kind = "plain"
                       => stream[w]["audio"].pc = "off")
  /\ [][\A w \in Workers :
          worker[w].kind /= "none"
            => worker'[w].kind \in {worker[w].kind, "none"}]_vars

\* a format with paired audio and a manifest URL has been fetched by the
\* two downloads of the dual-stream merger
C14_Witness ==
  \E w \in Workers :
    /\ Resolved(w, "video")
    /\ worker[w].media.Formats[worker[w].format].URL = UrlM
    /\ worker[w].kind = "dual"
    /\ \A s \in Streams : stream[w][s].pc = "done"

\* C15: a job of an Audio descriptor runs the plain downloader, whatever its
\* URL.
C15_AudioPlain ==
  \A w \in Workers : Resolved(w, "audio") => worker[w].kind = "plain"

\* C16: the output path of a Video job, and the Filename the job shows once
\* the path is resolved, never end in the manifest extension; a format that
\* declares it gets the raw-segment extension.
C16_NoManifestExtension ==
  \A w \in Workers :
    Resolved(w, "video")
      => /\ FilepathExt(worker[w].outputPath) /= DotM3u8
         /\ FilepathExt(jobs[worker[w].job].Filename) /= DotM3u8
         /\ worker[w].media.Formats[worker[w].format].Ext = M3u8
              => FilepathExt(worker[w].outputPath) = <<".">> \o Ts

\* a video without a title whose format declares the manifest extension has
\* been fetched to a file named by the stable ID, with extension ts
C16_Witness ==
  \E w \in Workers :
    /\ Resolved(w, "video")
    /\ worker[w].pc = "ret"
    /\ worker[w].filename = <<>>
    /\ worker[w].media.Formats[worker[w].format].Ext = M3u8
    /\ worker[w].outputPath = Join(DirD, WithExt(MediaID, Ts))

\* the output directories of a run
Dirs == {DirD, DirE}

\* the base name: the sanitized requested filename, else the sanitized
\* title when that is not empty, else the ID
ExpectedBase(filename, title, id) ==
  IF filename /= <<>> THEN SanitizeFilename(filename)
  ELSE IF SanitizeFilename(title) /= <<>> THEN SanitizeFilename(title)
  ELSE id

\* the name with the extension, appended unless the name ends in it
ExpectedName(base, ext) ==
  IF HasSuffix(ToLower(base), <<".">> \o ext) THEN base
  ELSE WithExt(base, ext)

\* C17: for a Video, an Audio and an Image descriptor the output is named
\* by the sanitized requested filename when there is one, else by the
\* sanitized title when it is not empty, else by the ID, and the name ends in
\* the extension of the output, appended only when the name lacks it (the
\* images of a descriptor with several carry their index before it).
C17_OutputName ==
  \A w \in Workers :
    LET me == worker[w]
        m == me.media
        base == ExpectedBase(me.filename, m.Title, m.ID)
    IN /\ Resolved(w, "video")
            => \E dir \in Dirs :
                 me.outputPath =
                   Join(dir, ExpectedName(base,
                                          VideoExt(m.Formats[me.format])))
       /\ Resolved(w, "audio")
            => \E dir \in Dirs :
                 me.outputPath = Join(dir, ExpectedName(base, m.Ext))
       /\ Resolved(w, "image")
            => \A i \in DOMAIN me.filenames :
                 \E dir \in Dirs :
                   me.filenames[i] =
                     Join(dir, ExpectedName(
                       IF Len(m.Images) = 1 THEN base
                       ELSE base \o <<"_", Itoa(i)>>, m.Images[i].Ext))

\* the path lies under the directory
Under(path, dir) == HasPrefix(path, dir \o <<"/">>)

\* C18: the files written for a job lie under one output directory, all of
\* them under the same, also when clients change the output directory while
\* the job runs.
C18_OneDirectory ==
  \E dir \in Dirs : \A path \in disk : Under(path, dir)

\* the name of image i of n: the base alone for a single image, with the
\* 1-based index for several
IndexedName(base, i, n, ext) ==
  IF n = 1 THEN WithExt(base, ext)
  ELSE WithExt(base \o <<"_", Itoa(i)>>, ext)

Success == {code \in StatusCodes : code \in 200..299}

\* C21: downloadFile returns the error that carries the status exactly when
\* the status of the response is outside the 2xx range: a response outside
\* it ends the download with that error and without a file created, a 2xx
\* response never ends it with a status error, and unless the file cannot
\* be created its body is streamed.
C21_StatusFailure ==
  [][\A w \in Workers : \A s \in Streams :
       (stream[w][s].pc = "request" /\ stream'[w][s].status /= 0)
         => LET after == stream'[w][s]
            IN IF after.status \notin Success
               THEN /\ after.pc = "done"
                    /\ after.err = StatusError(after.status)
                    /\ disk' = disk
               ELSE /\ after.err /= StatusError(after.status)
                    /\ \/ after.pc = "check"
                          /\ stream[w][s].filepath \in disk'
                       \/ after.err =
                            Wrap("failed to create output file", Err("create"))
    ]_vars

\* a worker's dual-stream merger is returning: both sub-downloads are over
DualReturning(w) ==
  /\ worker[w].kind = "dual"
  /\ worker[w].pc = "run"
  /\ worker'[w].pc = "ret"

\* C22: a dual-stream download returns nil only if the video and the audio
\* download both returned nil; if either failed it returns that stream's
\* error, the video one when both failed, the remux tool is not invoked and
\* no file is deleted or written: the failed stream's file and the other
\* stream's file are on disk afterwards if they were before
C22_BothMustSucceed ==
  [][\A w \in Workers :
       DualReturning(w)
         => LET videoErr == stream[w]["video"].err
                audioErr == stream[w]["audio"].err
                ret == worker'[w].ret
            IN /\ ret = Nil <=> videoErr = Nil /\ audioErr = Nil
               /\ videoErr /= Nil
                    => ret = Wrap("failed to download video stream", videoErr)
               /\ videoErr = Nil /\ audioErr /= Nil
                    => ret = Wrap("failed to download audio stream", audioErr)
               /\ ret /= Nil
                    => /\ worker'[w].remux = "none"
                       /\ disk' = disk
                       /\ MergedFile(stream[w]["video"].filepath) \notin disk'
    ]_vars

\* the audio download failed after the video download succeeded: the merger
\* returned the audio error, the remux tool was not invoked and both files,
\* the complete one and the partial one, are on disk
C22_Witness ==
  \E w \in Workers :
    /\ worker[w].kind = "dual"
    /\ worker[w].pc = "ret"
    /\ worker[w].ret = Wrap("failed to download audio stream",
                            Wrap("download failed", Err("read")))
    /\ worker[w].remux = "none"
    /\ worker[w].outputPath \in disk
    /\ Cardinality(disk) = 2

\* C23: when both sub-downloads of a dual-stream job returned nil the merger
\* returns nil whatever became of the remux tool, and the job ends Completed:
\* an unavailable tool is not invoked (nothing is written), a failed merge is
\* dropped, and in both cases the video file and the audio file stay on disk.
\* No other error is dropped: a download function that was handed an error
\* by a fetch returns an error, and a job ends Completed only if its download
\* function returned nil
C23_MergeNeverFails ==
  [][\A w \in Workers :
       /\ DualReturning(w)
          /\ stream[w]["video"].err = Nil /\ stream[w]["audio"].err = Nil
            => /\ worker'[w].ret = Nil
               /\ worker'[w].remux \in Remuxes
               /\ worker'[w].remux /= "ok" => disk' = disk
               /\ stream[w]["video"].filepath \in disk'
               /\ stream[w]["audio"].filepath \in disk'
       /\ worker[w].pc = "run" /\ worker'[w].pc = "ret"
          /\ worker'[w].ret = Nil
            => \A s \in Streams : stream[w][s].err = Nil
       /\ worker[w].pc = "ret" /\ worker'[w].pc = "idle"
          /\ worker[w].job \in DOMAIN jobs'
            => (jobs'[worker[w].job].Status = JobStatusCompleted
                  <=> worker[w].ret = Nil)
    ]_vars

\* both downloads of a dual-stream job succeeded and the merge failed: the
\* merger returned nil and the two files, and no merged file, are on disk
C23_Witness ==
  \E w \in Workers :
    /\ worker[w].kind = "dual"
    /\ worker[w].pc = "ret"
    /\ worker[w].remux = "failed"
    /\ worker[w].ret = Nil
    /\ worker[w].outputPath \in disk
    /\ MergedFile(worker[w].outputPath) \notin disk
    /\ Cardinality(disk) = 2

\* the segments 1..n of the manifest, one after the other
RECURSIVE InManifestOrder(_)
InManifestOrder(n) ==
  IF n = 0 THEN <<>>
  ELSE InManifestOrder(n - 1) \o Plaintext(n, hls.sizes[n])

RECURSIVE SumOfSizes(_)
SumOfSizes(n) == IF n = 0 THEN 0 ELSE SumOfSizes(n - 1) + hls.sizes[n]

\* C24: whatever the order in which the segment fetches complete, the output
\* file is at any time the decrypted segments written so far in manifest
\* order, the written segments are the first ones of the manifest and each
\* was written once; a segment is written only when all its predecessors
\* are; no more than the inner limit of fetches are in flight; and when the
\* download is done the file holds every segment and its size is the sum of
\* the segment sizes
C24_ManifestOrder ==
  /\ [](hls.pc /= "idle"
          => LET n == Cardinality(Written)
             IN /\ Written = 1..n
                /\ hls.out = InManifestOrder(n)
                /\ \A i \in Segments :
                     hls.writes[i] = IF i \in Written THEN 1 ELSE 0
                /\ Cardinality(InFlight) <= InnerLimit
                /\ hls.pc = "done"
                     => /\ n = Len(hls.sizes)
                        /\ Len(hls.out) = SumOfSizes(Len(hls.sizes)))
  /\ [][\A i \in 1..MaxSegments :
          hls.pc /= "idle" /\ i \in Segments
          /\ hls'.writes[i] > hls.writes[i]
            => \A j \in 1..(i - 1) : hls.segment[j] = "written"]_vars

\* three encrypted segments whose fetches completed in the order 3, 2, 1:
\* the download is done and the file holds them in the order 1, 2, 3
C24_Witness ==
  /\ hls.pc = "done"
  /\ hls.key /= 0
  /\ hls.arrived = <<3, 2, 1>>
  /\ hls.out = InManifestOrder(3)

\* the engine has answered a request in this step
Answered == http'.pc = "served" /\ now' = now /\ http' /= http

\* a path under /api/ other than /api/health and /api/auth/*
Protected(path) ==
  /\ HasPrefix(path, Path.api)
  /\ path /= Path.health
  /\ ~HasPrefix(path, Path.auth)

\* a JWT signed with the server's API key and not expired
Authentic(token) ==
  /\ token.type /= "none"
  /\ token.key = apiKey
  /\ now < token.exp

\* C25: a server started with an API key runs the handler of a request to a
\* protected path if and only if the request's cookie or its bearer token is
\* a JWT signed with the API key and not expired; otherwise it answers 401,
\* the handler does not run and jobs and configuration are as before.
\* Requests to the other routes, and all routed requests to a server started
\* without an API key, reach their handler.
C25_AuthRequired ==
  [][Answered
       => LET r == http'.req
          IN /\ apiKey /= NoKey /\ Protected(r.path)
                  => IF Authentic(r.cookie) \/ Authentic(r.bearer)
                     THEN http'.handled /\ http'.code /= 401
                     ELSE /\ http'.code = 401
                          /\ ~http'.handled
                          /\ UNCHANGED <<jobs, queue, nextID, config,
                                         outputDir>>
             /\ (apiKey = NoKey \/ ~Protected(r.path)) /\ r.path /= Path.index
                  => http'.handled /\ http'.code /= 401
    ]_vars

\* a server with an API key has answered 401 to a submission that carried
\* an expired token of its own as the bearer token and a token signed with
\* another key as the cookie; no job exists
C25_Witness ==
  /\ apiKey = KeyK
  /\ http.pc = "served"
  /\ http.req.method = "POST"
  /\ http.req.path = Path.download
  /\ http.req.cookie.key = KeyX
  /\ http.req.bearer.key = KeyK
  /\ http.req.bearer.exp <= now
  /\ http.code = 401
  /\ jobs = <<>>

\* dir itself or a path below it
Inside(path, dir) ==
  \/ path = dir
  \/ HasPrefix(path, IF dir = <<"/">> THEN dir ELSE dir \o <<"/">>)

\* C26: GET /api/download?path=p serves a file only if p resolves to the
\* output directory or a path below it, and then the file p resolves to;
\* for every other p the answer is 403 and no file is served
C26_InsideOutputDir ==
  [][Answered /\ http'.handled
     /\ http'.req.method = "GET" /\ http'.req.path = Path.download
     /\ http'.req.query /= <<>>
       => LET absPath == Abs(http'.req.query)
          IN IF Inside(absPath, Abs(outputDir))
             THEN http'.file \in {<<>>, absPath}
             ELSE http'.code = 403 /\ http'.file = <<>>
    ]_vars

\* C27: a server with an API key answers a request to an /api/auth/ route
\* that carries no valid session cookie with a new session cookie, a token
\* of type session that expires in 24 hours and that the middleware accepts;
\* a request with a valid session cookie gets no cookie
C27_SessionCookie ==
  [][Answered /\ apiKey /= NoKey /\ HasPrefix(http'.req.path, Path.auth)
       => IF validateJWT(http'.req.cookie)
          THEN http'.setCookie = NoToken
          ELSE /\ http'.setCookie.type = "session"
               /\ http'.setCookie.exp = now + SessionDuration
               /\ validateJWT(http'.setCookie)
    ]_vars

\* C30: a POST /api/config answered with another status than 200 leaves the
\* saved configuration, the server's cached configuration, its output
\* directory and the job queue's output directory as they were; they change
\* only in a request answered with 200, and after such a request the two
\* output directories are equal
C30_ConfigOnSuccess ==
  [][Answered
       => /\ http'.code /= 200
               => UNCHANGED <<cfg, configFile, outputDir, jqOutputDir>>
          /\ http'.code = 200 /\ http'.req.path = Path.config
               => outputDir' = jqOutputDir'
    ]_vars

\* C28: a DELETE /api/jobs/:id request ends in one of three ways. If the job
\* is Queued or Downloading when the handler calls CancelJob, the job is
\* cancelled, stays in the listing and the answer is 200 without a call of
\* RemoveJob. Otherwise the handler calls RemoveJob: if the job is terminal
\* then, it leaves the listing and the answer is 200; if not, the answer is
\* 404 and nothing changes. No request both cancels and removes, and no job
\* is removed that is not terminal, whatever the workers do meanwhile.
C28_DeleteOutcome ==
  /\ [](http.pc = "done"
          => \/ http.cancelled /\ ~http.removed /\ http.code = 200
             \/ http.removed /\ ~http.cancelled /\ http.code = 200
             \/ ~http.cancelled /\ ~http.removed /\ http.code = 404)
  /\ [][\A id \in 0..limits.maxJobs :
          CancelJobStep(id)
            => IF id \in DOMAIN jobs /\ jobs[id].Status \in ActiveStatus
               THEN /\ http'.pc = "done"
                    /\ http'.cancelled
                    /\ id \in DOMAIN jobs'
                    /\ jobs'[id].ctxDone
               ELSE /\ http'.pc = "remove"
                    /\ jobs' = jobs]_vars
  /\ [][RemoveJobStep
          => LET id == http.id
             IN IF id \in DOMAIN jobs /\ jobs[id].Status \in TerminalStatus
                THEN /\ http'.removed
                     /\ DOMAIN jobs' = DOMAIN jobs \ {id}
                     /\ \A other \in DOMAIN jobs' : jobs'[other] = jobs[other]
                ELSE /\ http'.code = 404
                     /\ UNCHANGED <<jobs, queue, worker, observed,
                                    invoked>>]_vars

\* a request has removed a job that had failed while a worker runs another
\* job, and a later request has cancelled that one, which is still listed
C28_Witness ==
  /\ http.pc = "done"
  /\ http.cancelled
  /\ \E id \in DOMAIN observed :
       /\ id \notin DOMAIN jobs
       /\ observed[id][Len(observed[id])] = JobStatusFailed
  /\ http.id \in DOMAIN jobs
  /\ jobs[http.id].Status = JobStatusDownloading
  /\ \E w \in Workers : worker[w].job = http.id

\* C29: the output path a worker resolves becomes the Filename of the job
\* that worker runs, and a step of a worker changes no field of any other
\* job, also when jobs share their URL
C29_OwnJobOnly ==
  [][\A w \in Workers :
       worker'[w] /= worker[w] /\ worker[w].job \in DOMAIN jobs
         => /\ \A id \in DOMAIN jobs \ {worker[w].job} :
                 id \in DOMAIN jobs' /\ jobs'[id] = jobs[id]
            /\ worker[w].pc = "extract" /\ worker'[w].pc = "run"
                 => jobs'[worker[w].job].Filename = worker'[w].outputPath
    ]_vars

LastStatus(id) == observed[id][Len(observed[id])]

\* the download function is running for job id
EngineRuns(id) ==
  \E w \in Workers : worker[w].job = id /\ worker[w].pc \in {"extract", "run"}

\* C31: with workers and sub-downloads scheduled fairly and responses that
\* end or fail after finitely many chunks, every job AddJob created
\* eventually is in a terminal state; and once CancelJob has signalled a
\* Downloading job, the download function eventually has returned, no
\* sub-download of it is left running, and the job is in a terminal state.
C31_Termination ==
  \A id \in 1..2 :
    /\ (id \in DOMAIN observed)
         ~> (id \in DOMAIN observed /\ LastStatus(id) \in TerminalStatus)
    /\ (/\ id \in DOMAIN jobs
        /\ jobs[id].Status = JobStatusDownloading
        /\ jobs[id].ctxDone)
         ~> (/\ id \in DOMAIN observed
             /\ LastStatus(id) \in TerminalStatus
             /\ ~EngineRuns(id)
             /\ \A w \in Workers :
                  worker[w].job = id
                    => \A s \in Streams : stream[w][s].pc = "off")

\* the first job, a dual-stream download cancelled after both sub-downloads
\* had created their files, has ended Cancelled with the error of the video
\* stream, and the second job, which waited behind it, has ended Failed;
\* the worker is idle
C31_Witness ==
  /\ DOMAIN jobs = {1, 2}
  /\ observed[1] = <<JobStatusQueued, JobStatusDownloading,
                     JobStatusCancelled>>
  /\ jobs[1].ctxDone
  /\ jobs[1].Error = Wrap("failed to download video stream", Canceled)
  /\ Cardinality(disk) = 2
  /\ observed[2] = <<JobStatusQueued, JobStatusDownloading, JobStatusFailed>>
  /\ worker[1].pc = "idle"

=============================================================================
